---- MODULE Spec2Model ----
(***************************************************************************)
(* A model of the REstringer deobfuscation engine: the iterative driver   *)
(* and orchestrator, the evaluator-backed (unsafe) rules and the safe     *)
(* rewrite rules, each translated from its source.                        *)
(*                                                                         *)
(* The module holds several specifications over one set of variables;     *)
(* each specification drives one part of the engine and leaves the other  *)
(* variables at their initial value.                                      *)
(*   SpecDriver  deobfuscate() and applyIteratively() with the            *)
(*               DEFAULT_MAX_ITERATIONS counter                           *)
(*   SpecUnsafe  one transform pass of an evaluator-backed rule           *)
(*   SpecSafe    one safe rule repeated over one tree of node objects     *)
(*   SpecCli     parseArgs on one command line                            *)
(***************************************************************************)
EXTENDS Integers, Sequences, FiniteSets, TLC

(***************************************************************************)
(* Bounds of the model.                                                    *)
(***************************************************************************)
\* longest script (in top-level statements) given to deobfuscate()
MaxStmts == 1
\* number of runs (deobfuscate() or applyIteratively() calls) in one process
MaxRuns == 2
\* largest explicit iteration ceiling a caller passes
MaxUserIterations == 1
\* largest expression (in nodes) given to an evaluator-backed rule
MaxNodes == 5
\* most functions a script of calls declares
MaxCallees == 101

(***************************************************************************)
(* Program constants.                                                      *)
(***************************************************************************)
\* config.js: DEFAULT_MAX_ITERATIONS.value
DefaultMaxIterationsValue == 500
\* resolveLocalCalls.js: CACHE_LIMIT
CACHE_LIMIT == 100
\* config.js: BAD_VALUE, the sentinel of a failed evaluation
BAD_VALUE == "--BAD-VAL--"

Max(a, b) == IF a >= b THEN a ELSE b

(***************************************************************************)
(* Variables.                                                              *)
(***************************************************************************)
VARIABLES
    \* ---- process-wide state (module-level objects) ----
    DEFAULT_MAX_ITERATIONS, \* DEFAULT_MAX_ITERATIONS.value
    APPEARANCES,            \* resolveLocalCalls.js: callee name -> count
    \* ---- orchestrator (REstringer instance) ----
    runs,                   \* number of runs started in this process
    phase,                  \* position of deobfuscate()
    script,                 \* REstringer.script: the current source
    inputScript,            \* the source the run started with
    family,                 \* detected obfuscation family
    clean,                  \* the clean option
    maxIterations,          \* the shared default object, or a number n
    roundStart,             \* source at the start of a safe+unsafe round
    returned,               \* return value of deobfuscate() (once phase = "done")
    \* ---- applyIteratively() frame ----
    funcs,                  \* the rule list of the call
    fi,                     \* index of the next rule in the pass
    scriptSnapshot,         \* source at the start of the pass
    currentIteration,       \* passes completed in this call
    aiPc,                   \* "none" | "check" | "rule" | "done"
    ceilingAtCall,          \* the ceiling's value when the call started
    \* ---- one transform call of an evaluator-backed rule ----
    uPc,                    \* "idle" | "loop"
    uRule,                  \* the rule whose transform runs
    uTree,                  \* the expression under transformation
    uMatches,               \* matches: the candidates, as paths, in list order
    ui,                     \* index of the next candidate
    modifiedRanges,         \* resolveLocalCallsTransform: modifiedRanges
    cache,                  \* getCache(scriptHash): the keys it holds
    staged,                 \* the markNode calls made so far
    lastResult,             \* the evaluator's answer for the previous candidate
    \* ---- one rule repeated over a tree of node objects ----
    sPc,                    \* "idle" | "match" | "transform" | "trace" | "done"
    sRule,                  \* the rule being repeated
    heap,                   \* the node objects, by identity
    sRoot,                  \* arb.ast[0]: the identity of the root node
    heapAtMatch,            \* the node objects as match saw them
    sMatches,               \* what match returned, in list order
    si,                     \* index of the next match to transform
    sStaged,                \* the markNode calls of this pass
    \* ---- the locals of rearrangeSwitchesTransform while it runs ----
    ordered,                \* the statements collected so far
    currentVal,             \* the value the discriminant is traced to
    counter,                \* the cases visited
    \* ---- the command line ----
    cliPc,                  \* "idle" | "parsed"
    cliArgs,                \* the arguments parseArgs was given
    cliOpts                 \* the options parseArgs returned

drvVars == <<DEFAULT_MAX_ITERATIONS, APPEARANCES, runs, phase, script,
             inputScript, family, clean, maxIterations, roundStart, returned,
             funcs, fi, scriptSnapshot, currentIteration, aiPc, ceilingAtCall>>

unsafeVars == <<uPc, uRule, uTree, uMatches, ui, modifiedRanges, cache, staged,
                lastResult>>

traceVars == <<ordered, currentVal, counter>>

safeVars == <<sPc, sRule, heap, sRoot, heapAtMatch, sMatches, si, sStaged,
              traceVars>>

cliVars == <<cliPc, cliArgs, cliOpts>>

vars == <<drvVars, unsafeVars, safeVars, cliVars>>

\* what the driver's steps leave alone, and what a transform call leaves alone
othersThanDriver == <<unsafeVars, safeVars, cliVars>>
othersThanUnsafe == <<drvVars, safeVars, cliVars>>
othersThanSafe == <<drvVars, unsafeVars, cliVars>>
othersThanCli == <<drvVars, unsafeVars, safeVars>>

(***************************************************************************)
(* Scripts.  A script is a sequence of top-level statements; a statement  *)
(* is named by the construct it holds:                                    *)
(*   newState     (function(){ ... 'newState' ... })  debug-trap literal  *)
(*   ifElseEmpty  if (t) a(); else {}                                     *)
(*   ifNoElse     if (t) a();                                             *)
(*   callF        f(1), f declared in the script                           *)
(*   binExpr      1 + 2, a binary expression of literals                   *)
(*   fnDeadVar    function h(){ var unused = 1; }                         *)
(*   fnEmpty      function h(){ }                                         *)
(*   lit          a literal expression statement                          *)
(*   wrapA/wrapB  constructs a caller-supplied module rewrites into each  *)
(*                other                                                    *)
(***************************************************************************)
DeobKinds == {"newState", "ifElseEmpty", "ifNoElse", "callF", "binExpr",
              "fnDeadVar", "lit"}
\* constructs only a rewrite produces
RewrittenKinds == {"fnEmpty"}
CustomKinds == {"wrapA", "wrapB", "lit"}
CalleeNames == {"f"}
NoSnapshot == <<"<no snapshot>">>

SeqsUpTo(S, n) == UNION {[1..k -> S] : k \in 0..n}

CalleeOf(kind) == IF kind = "callF" THEN "f" ELSE "-"


(***************************************************************************)
(* config.js: DEFAULT_MAX_ITERATIONS = {value: 500, valueOf() {return      *)
(* this.value--;}}.  A use of the object as a number yields its value and *)
(* leaves the value one lower.                                            *)
(***************************************************************************)
valueOfResult(v) == v
\* a counter that grows on use instead
valueOfIncrementing(v) == v + 1
valueOfNextValue(v) == v - 1

(***************************************************************************)
(* Rules as the driver sees them: what one call of a rule (match, the      *)
(* transforms, commit) makes of each statement.                            *)
(***************************************************************************)
\* processors/obfuscator.io.js: obfuscatorIoMatch
freezeUnbeautifiedValuesMatch(kind) == kind = "newState"
\* processors/obfuscator.io.js: obfuscatorIoTransform, the FunctionExpression
\* around 'newState' becomes the bypass Literal
freezeUnbeautifiedValuesRewrite(kind) == IF kind = "newState" THEN {"lit"} ELSE {kind}

\* simplifyIfStatements.js: simplifyIfStatementsMatch; isEmpty(null) is true,
\* so an if without else and with a populated consequent matches as well
simplifyIfStatementsMatches(kind) == kind \in {"ifElseEmpty", "ifNoElse"}
\* simplifyIfStatementsTransform: the empty alternate is removed; with
\* alternate === null nothing is staged
simplifyIfStatementsRewrite(kind) == IF kind = "ifElseEmpty" THEN {"ifNoElse"} ELSE {kind}

\* resolveLocalCalls.js: resolveLocalCallsMatch, a call whose callee has a declaration
resolveLocalCallsMatches(kind) == kind = "callF"
\* resolveLocalCallsTransform: the call becomes the evaluator's result, or
\* stays when the evaluator returns BAD_VALUE
resolveLocalCallsRewrite(kind) == IF kind = "callF" THEN {"lit", kind} ELSE {kind}

\* resolveDefiniteBinaryExpressions.js: resolveDefiniteBinaryExpressionsMatch,
\* a binary expression whose operands are literals
resolveDefiniteBinaryExpressionsMatches(kind) == kind = "binExpr"
\* a transform that stages an edit for every node, matched or not
resolveDefiniteBinaryExpressionsRewriteUnmatched(kind) == {"lit"}
\* resolveDefiniteBinaryExpressionsTransform: each match becomes the evaluator's
\* result, or stays when the evaluator returns BAD_VALUE; other nodes stay
resolveDefiniteBinaryExpressionsRewrite(kind) ==
    IF kind = "binExpr" THEN {"lit", kind} ELSE {kind}

\* removeDeadNodes.js: removeDeadNodesMatch, an unreferenced declaration below root scope
removeDeadNodesMatches(kind) == kind = "fnDeadVar"
\* removeDeadNodesTransform: the declaration is deleted
removeDeadNodesRewrite(kind) == IF kind = "fnDeadVar" THEN {"fnEmpty"} ELSE {kind}

\* a caller-supplied module (README, Custom Deobfuscators) that never settles
customModuleMatches(kind) == kind \in {"wrapA", "wrapB"}
customModuleRewrite(kind) ==
    IF kind = "wrapA" THEN {"wrapB"} ELSE IF kind = "wrapB" THEN {"wrapA"} ELSE {kind}

RuleMatches(rule, kind) ==
    CASE rule = "freezeUnbeautifiedValues" -> freezeUnbeautifiedValuesMatch(kind)
      [] rule = "simplifyIfStatements" -> simplifyIfStatementsMatches(kind)
      [] rule = "resolveLocalCalls" -> resolveLocalCallsMatches(kind)
      [] rule = "resolveDefiniteBinaryExpressions" ->
            resolveDefiniteBinaryExpressionsMatches(kind)
      [] rule = "removeDeadNodes" -> removeDeadNodesMatches(kind)
      [] rule = "customModule" -> customModuleMatches(kind)
      [] OTHER -> FALSE

RuleRewrite(rule, kind) ==
    CASE rule = "freezeUnbeautifiedValues" -> freezeUnbeautifiedValuesRewrite(kind)
      [] rule = "simplifyIfStatements" -> simplifyIfStatementsRewrite(kind)
      [] rule = "resolveLocalCalls" -> resolveLocalCallsRewrite(kind)
      [] rule = "resolveDefiniteBinaryExpressions" ->
            resolveDefiniteBinaryExpressionsRewrite(kind)
      [] rule = "removeDeadNodes" -> removeDeadNodesRewrite(kind)
      [] rule = "customModule" -> customModuleRewrite(kind)
      [] OTHER -> {kind}

\* the sources one call of a rule can leave
RuleResults(rule, src) ==
    {t \in [1..Len(src) -> DeobKinds \cup RewrittenKinds \cup CustomKinds] :
        \A i \in 1..Len(src) : t[i] \in RuleRewrite(rule, src[i])}

\* resolveLocalCalls.js: countAppearances over the matches of one call
CountAppearances(src) ==
    [name \in CalleeNames |-> Cardinality({i \in 1..Len(src) : CalleeOf(src[i]) = name})]
\* the table as it would be were it not rebuilt by resolveLocalCallsMatch
CountAppearancesKeeping(old, src) ==
    [name \in CalleeNames |-> old[name] + CountAppearances(src)[name]]
\* resolveLocalCallsMatch: APPEARANCES = new Map(), then one count per match
AppearancesAfterMatch(old, src) == CountAppearances(src)

(***************************************************************************)
(* Processor bundles (processors/index.js, obfuscator.io.js, caesarp.js). *)
(***************************************************************************)
augmentedArrayPreprocessors == <<"replaceArrayWithStaticAugmentedVersion">>
augmentedArrayPostprocessors == <<>>
\* obfuscator.io.js: preprocessors / postprocessors
obfuscatorIoPreprocessors == <<"freezeUnbeautifiedValues">> \o augmentedArrayPreprocessors
\* a bundle that lists a preprocessor among its postprocessors
obfuscatorIoPostprocessorsMixed == <<"freezeUnbeautifiedValues">> \o augmentedArrayPostprocessors
obfuscatorIoPostprocessors == augmentedArrayPostprocessors
caesarPreprocessors == <<"unwrapOuterLayer">>
caesarPostprocessors == <<"removeDeadNodes">>

Families == {"Generic", "obfuscator.io", "caesar_plus"}
preprocessors(fam) ==
    CASE fam = "obfuscator.io" -> obfuscatorIoPreprocessors
      [] fam = "caesar_plus" -> caesarPreprocessors
      [] OTHER -> <<>>
postprocessors(fam) ==
    CASE fam = "obfuscator.io" -> obfuscatorIoPostprocessors
      [] fam = "caesar_plus" -> caesarPostprocessors
      [] OTHER -> <<>>
safeMethods == <<"simplifyIfStatements">>
unsafeMethods == <<"resolveDefiniteBinaryExpressions", "resolveLocalCalls">>
customModules == <<"customModule">>

Range(f) == {f[i] : i \in DOMAIN f}

(***************************************************************************)
(* applyIteratively(script, funcs, maxIterations)                          *)
(***************************************************************************)
\* the ceiling read as a number (without the side effect of reading it)
CeilingNow == IF maxIterations.shared THEN DEFAULT_MAX_ITERATIONS ELSE maxIterations.n

\* no call in progress
NoFrame ==
    /\ funcs' = <<>>
    /\ fi' = 1
    /\ scriptSnapshot' = NoSnapshot
    /\ currentIteration' = 0
    /\ ceilingAtCall' = 0

\* entry: a fresh frame
AiBegin(fs) ==
    /\ funcs' = fs
    /\ fi' = 1
    /\ scriptSnapshot' = NoSnapshot
    /\ currentIteration' = 0
    /\ aiPc' = "check"
    /\ ceilingAtCall' = CeilingNow

\* the loop test: scriptSnapshot !== script && currentIteration < maxIterations.
\* The ceiling is read only when the source changed, and reading the default
\* object decrements it.
AiCheck ==
    /\ UNCHANGED othersThanDriver
    /\ aiPc = "check"
    /\ LET changed == scriptSnapshot # script
           readsCeiling == changed
           limit == IF maxIterations.shared
                    THEN valueOfResult(DEFAULT_MAX_ITERATIONS) ELSE maxIterations.n
           goOn == changed /\ currentIteration < limit
       IN /\ DEFAULT_MAX_ITERATIONS' =
                 IF readsCeiling /\ maxIterations.shared
                 THEN valueOfNextValue(DEFAULT_MAX_ITERATIONS)
                 ELSE DEFAULT_MAX_ITERATIONS
          /\ IF goOn
             THEN /\ scriptSnapshot' = script
                  /\ IF Len(funcs) = 0
                     THEN /\ currentIteration' = currentIteration + 1
                          /\ aiPc' = "check"
                     ELSE /\ currentIteration' = currentIteration
                          /\ aiPc' = "rule"
                  /\ fi' = 1
             ELSE /\ aiPc' = "done"
                  /\ UNCHANGED <<scriptSnapshot, fi, currentIteration>>
    /\ UNCHANGED <<APPEARANCES, runs, phase, script, inputScript, family, clean,
                   maxIterations, roundStart, returned, funcs, ceilingAtCall>>

\* one rule of the pass: match, transform every match, commit, re-emit
AiRunRule ==
    /\ UNCHANGED othersThanDriver
    /\ aiPc = "rule"
    /\ script' \in RuleResults(funcs[fi], script)
    /\ APPEARANCES' = IF funcs[fi] = "resolveLocalCalls"
                      THEN AppearancesAfterMatch(APPEARANCES, script)
                      ELSE APPEARANCES
    /\ IF fi < Len(funcs)
       THEN /\ fi' = fi + 1
            /\ UNCHANGED <<aiPc, currentIteration>>
       ELSE /\ fi' = 1
            /\ aiPc' = "check"
            /\ currentIteration' = currentIteration + 1
    /\ UNCHANGED <<DEFAULT_MAX_ITERATIONS, runs, phase, inputScript, family, clean,
                   maxIterations, roundStart, returned, funcs, scriptSnapshot,
                   ceilingAtCall>>

(***************************************************************************)
(* The orchestrator: deobfuscate()                                         *)
(***************************************************************************)
\* the ceiling of a run: the shared DEFAULT_MAX_ITERATIONS object, or a number
DefaultCeiling == [shared |-> TRUE, n |-> 0]
CeilingChoices ==
    {DefaultCeiling} \cup {[shared |-> FALSE, n |-> k] : k \in 1..MaxUserIterations}

\* new REstringer(source); deobfuscate(): detect the family, run its preprocessors
StartDeobfuscate ==
    /\ UNCHANGED othersThanDriver
    /\ phase = "idle"
    /\ runs < MaxRuns
    /\ runs' = runs + 1
    /\ \E src \in SeqsUpTo(DeobKinds, MaxStmts), fam \in Families, c \in BOOLEAN,
          m \in CeilingChoices :
          /\ script' = src
          /\ inputScript' = src
          /\ family' = fam
          /\ clean' = c
          /\ maxIterations' = m
    /\ phase' = "start"
    /\ roundStart' = <<>>
    /\ returned' = FALSE
    /\ aiPc' = "none"
    /\ UNCHANGED <<DEFAULT_MAX_ITERATIONS, APPEARANCES, funcs, fi, scriptSnapshot,
                   currentIteration, ceilingAtCall>>

\* applyIteratively(script, preprocessors)
RunPreprocessors ==
    /\ UNCHANGED othersThanDriver
    /\ phase = "start"
    /\ phase' = "pre"
    /\ AiBegin(preprocessors(family))
    /\ UNCHANGED <<DEFAULT_MAX_ITERATIONS, APPEARANCES, runs, script, inputScript,
                   family, clean, maxIterations, roundStart, returned>>

\* the main loop: the safe rules to a fixed point ...
RunSafe ==
    /\ UNCHANGED othersThanDriver
    /\ aiPc = "done"
    /\ \/ phase = "pre"
       \/ phase = "unsafe" /\ script # roundStart
    /\ phase' = "safe"
    /\ roundStart' = script
    /\ AiBegin(safeMethods)
    /\ UNCHANGED <<DEFAULT_MAX_ITERATIONS, APPEARANCES, runs, script, inputScript,
                   family, clean, maxIterations, returned>>

\* ... then the unsafe rules, and again while a round changed the source
RunUnsafe ==
    /\ UNCHANGED othersThanDriver
    /\ aiPc = "done"
    /\ phase = "safe"
    /\ phase' = "unsafe"
    /\ AiBegin(unsafeMethods)
    /\ UNCHANGED <<DEFAULT_MAX_ITERATIONS, APPEARANCES, runs, script, inputScript,
                   family, clean, maxIterations, roundStart, returned>>

\* applyIteratively(script, postprocessors)
RunPostprocessors ==
    /\ UNCHANGED othersThanDriver
    /\ aiPc = "done"
    /\ phase = "unsafe" /\ script = roundStart
    /\ phase' = "post"
    /\ AiBegin(postprocessors(family))
    /\ UNCHANGED <<DEFAULT_MAX_ITERATIONS, APPEARANCES, runs, script, inputScript,
                   family, clean, maxIterations, roundStart, returned>>

\* the clean option: dead-code elimination
RunClean ==
    /\ UNCHANGED othersThanDriver
    /\ aiPc = "done"
    /\ phase = "post" /\ clean
    /\ phase' = "clean"
    /\ AiBegin(<<"removeDeadNodes">>)
    /\ UNCHANGED <<DEFAULT_MAX_ITERATIONS, APPEARANCES, runs, script, inputScript,
                   family, clean, maxIterations, roundStart, returned>>

\* return true if the final source differs from the input
DeobfuscateResult(final, input) == final # input

Return ==
    /\ UNCHANGED othersThanDriver
    /\ aiPc = "done"
    /\ \/ phase = "post" /\ ~clean
       \/ phase = "clean"
    /\ phase' = "done"
    /\ returned' = DeobfuscateResult(script, inputScript)
    /\ aiPc' = "none"
    /\ NoFrame
    /\ UNCHANGED <<DEFAULT_MAX_ITERATIONS, APPEARANCES, runs, script, inputScript,
                   family, clean, maxIterations, roundStart>>

\* a caller's own pipeline: applyIteratively(script, customModules)
StartCustom ==
    /\ UNCHANGED othersThanDriver
    /\ phase = "idle"
    /\ runs < MaxRuns
    /\ runs' = runs + 1
    /\ \E k \in CustomKinds, m \in CeilingChoices :
          /\ script' = <<k>>
          /\ inputScript' = <<k>>
          /\ maxIterations' = m
    /\ family' = "Generic"
    /\ clean' = FALSE
    /\ phase' = "custom"
    /\ roundStart' = <<>>
    /\ returned' = FALSE
    /\ aiPc' = "none"
    /\ UNCHANGED <<DEFAULT_MAX_ITERATIONS, APPEARANCES, funcs, fi, scriptSnapshot,
                   currentIteration, ceilingAtCall>>

RunCustom ==
    /\ UNCHANGED othersThanDriver
    /\ phase = "custom" /\ aiPc = "none"
    /\ AiBegin(customModules)
    /\ UNCHANGED <<DEFAULT_MAX_ITERATIONS, APPEARANCES, runs, phase, script,
                   inputScript, family, clean, maxIterations, roundStart, returned>>

CustomDone ==
    /\ UNCHANGED othersThanDriver
    /\ aiPc = "done"
    /\ phase = "custom"
    /\ phase' = "customDone"
    /\ aiPc' = "none"
    /\ NoFrame
    /\ UNCHANGED <<DEFAULT_MAX_ITERATIONS, APPEARANCES, runs, script, inputScript,
                   family, clean, maxIterations, roundStart, returned>>

\* the finished run's instance and locals go out of scope; the module-level
\* objects stay
Discard ==
    /\ UNCHANGED othersThanDriver
    /\ phase \in {"done", "customDone"}
    /\ phase' = "idle"
    /\ script' = <<>>
    /\ inputScript' = <<>>
    /\ family' = "Generic"
    /\ clean' = FALSE
    /\ maxIterations' = DefaultCeiling
    /\ roundStart' = <<>>
    /\ returned' = FALSE
    /\ UNCHANGED <<DEFAULT_MAX_ITERATIONS, APPEARANCES, runs, funcs, fi,
                   scriptSnapshot, currentIteration, aiPc, ceilingAtCall>>

NotEvaluated == "<not evaluated>"

\* no transform call in progress
UnsafeIdle ==
    /\ uPc = "idle"
    /\ uRule = "none"
    /\ uTree = <<"Literal">>
    /\ uMatches = <<>>
    /\ ui = 1
    /\ modifiedRanges = <<>>
    /\ cache = {}
    /\ staged = {}
    /\ lastResult = NotEvaluated

\* no rule is being repeated over a tree
SafeIdle ==
    /\ sPc = "idle"
    /\ sRule = "none"
    /\ heap = <<>>
    /\ sRoot = 0
    /\ heapAtMatch = <<>>
    /\ sMatches = <<>>
    /\ si = 1
    /\ sStaged = <<>>
    /\ ordered = <<>>
    /\ currentVal = [kind |-> "undefined", num |-> 0, str |-> ""]
    /\ counter = 0

\* parseArgs has not been called
CliIdle ==
    /\ cliPc = "idle"
    /\ cliArgs = <<>>
    /\ cliOpts = <<>>

DrvInit ==
    /\ SafeIdle
    /\ CliIdle
    /\ DEFAULT_MAX_ITERATIONS = DefaultMaxIterationsValue
    /\ APPEARANCES = [name \in CalleeNames |-> 0]
    /\ runs = 0
    /\ phase = "idle"
    /\ script = <<>>
    /\ inputScript = <<>>
    /\ family = "Generic"
    /\ clean = FALSE
    /\ maxIterations = DefaultCeiling
    /\ roundStart = <<>>
    /\ returned = FALSE
    /\ funcs = <<>>
    /\ fi = 1
    /\ scriptSnapshot = NoSnapshot
    /\ currentIteration = 0
    /\ aiPc = "none"
    /\ ceilingAtCall = 0
    /\ UnsafeIdle

DrvNext ==
    \/ StartDeobfuscate
    \/ RunPreprocessors
    \/ RunSafe
    \/ RunUnsafe
    \/ RunPostprocessors
    \/ RunClean
    \/ Return
    \/ StartCustom
    \/ RunCustom
    \/ CustomDone
    \/ Discard
    \/ AiCheck
    \/ AiRunRule

SpecDriver == DrvInit /\ [][DrvNext]_vars

(***************************************************************************)
(* Expressions the evaluator-backed rules work on.  An expression is a    *)
(* tree: <<"Literal">>, <<"Identifier">>, <<"ThisExpression">>,            *)
(* <<"BinaryExpression", left, right>> or <<"CallExpression", callee, arg>>*)
(* where callee is a function declared in the script (its name and the    *)
(* id of its declaration): f, a function with a body to evaluate, or w, a *)
(* wrapper whose body is `return 1`.                                       *)
(* A node is named by its path from the root (1 = left or argument,       *)
(* 2 = right).                                                             *)
(***************************************************************************)
LeafTypes == {"Literal", "Identifier", "ThisExpression"}
DeclaredFunctions ==
    {[name |-> "f", id |-> 0], [name |-> "w", id |-> 0], [name |-> "$", id |-> 0]}

TreesOfSize[n \in 1..MaxNodes] ==
    IF n = 1 THEN {<<type>> : type \in LeafTypes}
    ELSE {<<"CallExpression", callee, arg>> :
             callee \in DeclaredFunctions, arg \in TreesOfSize[n - 1]}
         \cup UNION {{<<"BinaryExpression", l, r>> :
                         l \in TreesOfSize[k], r \in TreesOfSize[n - 1 - k]} :
                     k \in 1..(n - 2)}
Trees == UNION {TreesOfSize[n] : n \in 1..MaxNodes}

RECURSIVE SrcLen(_)
\* length of the node's source text: `l+r`, `f(arg)`, one character a leaf
SrcLen(t) ==
    CASE t[1] = "BinaryExpression" -> SrcLen(t[2]) + 1 + SrcLen(t[3])
      [] t[1] = "CallExpression" -> 3 + SrcLen(t[3])
      [] OTHER -> 1

RECURSIVE NodeAt(_, _)
NodeAt(t, path) ==
    IF path = <<>> THEN t
    ELSE IF t[1] = "BinaryExpression" THEN NodeAt(t[1 + Head(path)], Tail(path))
    ELSE NodeAt(t[3], Tail(path))

RECURSIVE PathsOf(_)
\* the nodes of a tree
PathsOf(t) ==
    CASE t[1] = "BinaryExpression" ->
            {<<>>} \cup {<<1>> \o p : p \in PathsOf(t[2])}
                   \cup {<<2>> \o p : p \in PathsOf(t[3])}
      [] t[1] = "CallExpression" -> {<<>>} \cup {<<1>> \o p : p \in PathsOf(t[3])}
      [] OTHER -> {<<>>}

RECURSIVE StartOf(_, _)
\* node.range[0]
StartOf(t, path) ==
    IF path = <<>> THEN 0
    ELSE IF t[1] = "BinaryExpression"
         THEN IF Head(path) = 1 THEN StartOf(t[2], Tail(path))
              ELSE SrcLen(t[2]) + 1 + StartOf(t[3], Tail(path))
         ELSE 2 + StartOf(t[3], Tail(path))
\* node.range
RangeOfNode(t, path) ==
    <<StartOf(t, path), StartOf(t, path) + SrcLen(NodeAt(t, path))>>

\* the orders in which a list can hold the members of a set
OrdersOf(S) ==
    {q \in [1..Cardinality(S) -> S] : \A i, j \in 1..Cardinality(S) : q[i] = q[j] => i = j}

(***************************************************************************)
(* Properties of the driver and the orchestrator.                          *)
(***************************************************************************)
\* C1: every applyIteratively call, whatever the source and the rule list,
\* completes at most as many passes as its iteration ceiling was worth when
\* the call started (so the call ends within max_iterations passes).
BoundedTermination ==
    aiPc \in {"check", "rule", "done"} => currentIteration <= Max(ceilingAtCall, 0)

\* a call on a source that never settles is ended by the default ceiling
EndedByDefaultCeiling ==
    /\ aiPc = "done"
    /\ scriptSnapshot # script
    /\ maxIterations.shared
    /\ currentIteration > MaxUserIterations

\* the rules one deobfuscate() run applies
RulesOfRun ==
    Range(preprocessors(family)) \cup Range(safeMethods) \cup Range(unsafeMethods)
        \cup Range(postprocessors(family))
        \cup (IF clean THEN {"removeDeadNodes"} ELSE {})
NoRuleMatchesInput ==
    \A rule \in RulesOfRun : \A i \in 1..Len(inputScript) :
        ~RuleMatches(rule, inputScript[i])

\* C2: when no rule of the run matches anything in the input, deobfuscate()
\* ends with the script identical to the input and returns false.
CleanCodeRoundTrip ==
    (phase = "done" /\ NoRuleMatchesInput) => (script = inputScript /\ returned = FALSE)

\* a finished run over a non-empty input that no rule matched
CleanRunFinished ==
    /\ phase = "done"
    /\ Len(inputScript) > 0
    /\ NoRuleMatchesInput
    /\ script = inputScript
    /\ returned = FALSE

MainLoopStarted == phase \in {"safe", "unsafe", "post", "clean", "done"}
MainLoopFinished == phase \in {"post", "clean", "done"}

\* C5: a preprocessor of the detected family runs only before the main loop
\* has started and a postprocessor only after it has finished; the list a
\* processor phase runs is the family's list for that phase.
ProcessorsNeverMixed ==
    /\ aiPc = "rule" =>
          /\ funcs[fi] \in Range(preprocessors(family)) => ~MainLoopStarted
          /\ funcs[fi] \in Range(postprocessors(family)) => MainLoopFinished
    /\ phase = "pre" => funcs = preprocessors(family)
    /\ phase = "post" => funcs = postprocessors(family)

\* a postprocessor running after a main loop that rewrote the source
PostprocessorRunning ==
    /\ aiPc = "rule"
    /\ phase = "post"
    /\ funcs[fi] \in Range(postprocessors(family))
    /\ script # inputScript

EvalResults == {BAD_VALUE, "Literal", "UnaryExpression", "FunctionDeclaration",
                "Identifier:undefined", "Literal:empty"}

\* utils/isNodeInRanges.js: the node's range lies within one of the ranges
isNodeInRangesNever(range, ranges) == FALSE
isNodeInRanges(range, ranges) ==
    IF Len(ranges) = 0 THEN FALSE
    ELSE \E i \in 1..Len(ranges) :
            range[1] >= ranges[i][1] /\ range[2] <= ranges[i][2]

\* the target lies within the range of an edit staged earlier in this call
StaleAt(range) ==
    \E e \in staged : range[1] >= e.target[1] /\ range[2] <= e.target[2]


\* ---- what each transform stages for a candidate, given the evaluator's answer
\* resolveLocalCallsTransform, the test on replacementNode
resolveLocalCallsStages(r, calleeIsToString) ==
    IF r # BAD_VALUE /\ r # "FunctionDeclaration" /\ r # "Identifier:undefined"
    THEN IF calleeIsToString /\ r = "Literal:function" THEN {} ELSE {r}
    ELSE {}
\* resolveDefiniteBinaryExpressionsTransform
resolveDefiniteBinaryExpressionsStages(r) == IF r # BAD_VALUE THEN {r} ELSE {}
\* resolveBuiltinCallsTransform: a safe implementation's value, or the evaluator's
resolveBuiltinCallsStages(hasSafeImplementation, tempValue, r) ==
    IF hasSafeImplementation
    THEN IF tempValue THEN {"Literal"} ELSE {}
    ELSE IF r # BAD_VALUE THEN {r} ELSE {}
\* resolveMemberExpressionsLocalReferencesTransform
resolveMemberExpressionsLocalReferencesStages(hasContext, r) ==
    IF hasContext /\ r # BAD_VALUE
    THEN IF r \in {"Literal:empty", "Identifier:undefined"} THEN {} ELSE {r}
    ELSE {}
\* resolveInjectedPrototypeMethodCallsTransform
resolveInjectedPrototypeMethodCallsStages(r) == IF r # BAD_VALUE THEN {r} ELSE {}
\* resolveDeterministicConditionalExpressionsTransform: a branch of the
\* conditional replaces it when the test evaluated to a Literal
resolveDeterministicConditionalExpressionsStages(r, truthy) ==
    IF r \in {"Literal", "Literal:empty"}
    THEN {IF truthy THEN "n.consequent" ELSE "n.alternate"}
    ELSE {}
\* resolveMinimalAlphabetTransform, with the BAD_VALUE test left out
resolveMinimalAlphabetStagesUnchecked(r) == {r}
\* resolveMinimalAlphabetTransform
resolveMinimalAlphabetStages(r) == IF r # BAD_VALUE THEN {r} ELSE {}
\* resolveDefiniteMemberExpressionsTransform
resolveDefiniteMemberExpressionsStages(r) == IF r # BAD_VALUE THEN {r} ELSE {}
\* resolveEvalCallsOnNonLiteralsTransform: a Literal result is parsed as code
\* and the Program replaces the call, unless parsing fails or gives no body
resolveEvalCallsOnNonLiteralsStages(r, parses) ==
    LET replacementNode ==
            IF r \in {"Literal", "Literal:empty"} /\ parses THEN "Program" ELSE r
    IN IF replacementNode # BAD_VALUE THEN {replacementNode} ELSE {}
\* normalizeRedundantNotOperatorTransform
normalizeRedundantNotOperatorStages(r) == IF r # BAD_VALUE THEN {r} ELSE {}
\* resolveAugmentedFunctionWrappedArrayReplacementsTransform, per replacement candidate
resolveAugmentedFunctionWrappedArrayReplacementsStages(r) ==
    IF r # BAD_VALUE THEN {r} ELSE {}

\* the rules whose match is not modelled here: a candidate is one node
\* <<"Node", type>> whose inside the transform does not look at
OtherRules == {"resolveMemberExpressionsLocalReferences",
               "resolveInjectedPrototypeMethodCalls",
               "resolveDeterministicConditionalExpressions", "resolveMinimalAlphabet",
               "resolveDefiniteMemberExpressions", "resolveEvalCallsOnNonLiterals",
               "normalizeRedundantNotOperator",
               "resolveAugmentedFunctionWrappedArrayReplacements"}
CandidateTypeOf(rule) ==
    CASE rule \in {"resolveMemberExpressionsLocalReferences",
                   "resolveDefiniteMemberExpressions"} -> "MemberExpression"
      [] rule = "resolveDeterministicConditionalExpressions" -> "ConditionalExpression"
      [] rule \in {"resolveMinimalAlphabet", "normalizeRedundantNotOperator"} ->
            "UnaryExpression"
      [] OTHER -> "CallExpression"
OtherRuleStages(rule, r, flag, flag2) ==
    CASE rule = "resolveMemberExpressionsLocalReferences" ->
            resolveMemberExpressionsLocalReferencesStages(flag, r)
      [] rule = "resolveInjectedPrototypeMethodCalls" ->
            resolveInjectedPrototypeMethodCallsStages(r)
      [] rule = "resolveDeterministicConditionalExpressions" ->
            resolveDeterministicConditionalExpressionsStages(r, flag)
      [] rule = "resolveMinimalAlphabet" -> resolveMinimalAlphabetStages(r)
      [] rule = "resolveDefiniteMemberExpressions" ->
            resolveDefiniteMemberExpressionsStages(r)
      [] rule = "resolveEvalCallsOnNonLiterals" ->
            resolveEvalCallsOnNonLiteralsStages(r, flag)
      [] rule = "normalizeRedundantNotOperator" ->
            normalizeRedundantNotOperatorStages(r)
      [] OTHER -> resolveAugmentedFunctionWrappedArrayReplacementsStages(r)
\* whether the transform asks the evaluator at all
OtherRuleEvaluates(rule, flag) ==
    CASE rule = "resolveMemberExpressionsLocalReferences" -> flag
      [] OTHER -> TRUE

\* ---- resolveBuiltinCalls: the calls it is given ----
\* config.js and resolveBuiltinCalls.js: the names and properties passed over
SKIP_BUILTIN_FUNCTIONS ==
    {"Function", "eval", "Array", "Object", "fetch", "XMLHttpRequest", "Promise",
     "console", "performance", "$"}
SKIP_IDENTIFIERS ==
    {"window", "this", "self", "document", "module", "$", "jQuery", "navigator",
     "typeof", "new", "Date", "Math", "Promise", "Error", "fetch", "XMLHttpRequest",
     "performance", "globalThis"}
PROPERTIES_THAT_MODIFY_CONTENT ==
    {"push", "forEach", "pop", "insert", "add", "set", "delete", "shift", "unshift",
     "splice", "sort", "reverse", "fill", "copyWithin"}
SKIP_PROPERTIES ==
    {"test", "exec", "match", "length", "freeze", "call", "apply", "create",
     "getTime", "now", "getMilliseconds"} \cup PROPERTIES_THAT_MODIFY_CONTENT
AVAILABLE_SAFE_IMPLEMENTATIONS == {"atob", "btoa"}

\* A call is told by its callee: root is the identifier the callee is, or the
\* one its member accesses start from (root.p for one link, root.q.p for
\* two), declared says that identifier has a declNode, property is the last
\* property of a member callee, literalArgs that every argument is a Literal.
MaxLinks == 2
RootNames == {"eval", "Object", "console", "window", "atob", "parseInt", "String"}
PropertyNames == {"", "hasOwnProperty", "call", "constructor"}
BuiltinCalls ==
    {c \in [root : RootNames, links : 0..MaxLinks, declared : BOOLEAN,
            property : PropertyNames, literalArgs : BOOLEAN] :
        (c.links = 0) = (c.property = "")}

\* n.callee.name and n.callee.object?.name: a name only where the node is an
\* Identifier
NoName == "<undefined>"
CalleeName(c) == IF c.links = 0 THEN c.root ELSE NoName
CalleeObjectName(c) == IF c.links = 1 THEN c.root ELSE NoName

resolveBuiltinCallsMatch(c) ==
    IF \/ c.links = 0 /\ c.declared
       \/ c.links = 1 /\ c.declared
       \/ c.property = "constructor"
    THEN FALSE
    ELSE IF CalleeName(c) \in AVAILABLE_SAFE_IMPLEMENTATIONS THEN TRUE
    ELSE IF c.literalArgs
         THEN IF c.links = 0
              THEN ~c.declared /\ CalleeName(c) \notin SKIP_BUILTIN_FUNCTIONS
              ELSE /\ ~(c.links = 1 /\ c.declared)
                   /\ CalleeObjectName(c) \notin SKIP_BUILTIN_FUNCTIONS
                   /\ CalleeObjectName(c) \notin SKIP_IDENTIFIERS
                   /\ c.property \notin SKIP_PROPERTIES
         ELSE FALSE

\* a script of 2*d statements, the calls f_1(1); f_1(2); f_2(1); f_2(2); ...
\* to d declared functions
LongScripts == {<<"Program", d>> : d \in 1..MaxCallees}
StatementOf(t, i) ==
    <<"CallExpression", [name |-> "f", id |-> (i + 1) \div 2], <<"Literal">>>>

\* the node a candidate path names, and its range, in either kind of script
CandidateNode(t, path) ==
    IF t[1] = "Program" THEN StatementOf(t, path[1]) ELSE NodeAt(t, path)
CandidateRange(t, path) ==
    IF t[1] = "Program"
    THEN <<(path[1] - 1) * (SrcLen(StatementOf(t, path[1])) + 1),
           (path[1] - 1) * (SrcLen(StatementOf(t, path[1])) + 1)
               + SrcLen(StatementOf(t, path[1]))>>
    ELSE RangeOfNode(t, path)

\* resolveLocalCallsMatch: the calls whose callee has a declaration, the most
\* frequent callee first
resolveLocalCallsCandidates(t) ==
    {p \in PathsOf(t) : NodeAt(t, p)[1] = "CallExpression"}
AppearancesIn(t, callee) ==
    Cardinality({p \in resolveLocalCallsCandidates(t) : NodeAt(t, p)[2] = callee})
resolveLocalCallsMatch(t) ==
    IF t[1] = "Program"
    THEN {[i \in 1..(2 * t[2]) |-> <<i>>]}
    ELSE {q \in OrdersOf(resolveLocalCallsCandidates(t)) :
             \A i, j \in DOMAIN q :
                i < j => AppearancesIn(t, NodeAt(t, q[i])[2])
                             >= AppearancesIn(t, NodeAt(t, q[j])[2])}

RECURSIVE doesBinaryExpressionContainOnlyLiterals(_)
doesBinaryExpressionContainOnlyLiterals(expression) ==
    CASE expression[1] = "BinaryExpression" ->
            /\ doesBinaryExpressionContainOnlyLiterals(expression[2])
            /\ doesBinaryExpressionContainOnlyLiterals(expression[3])
      [] expression[1] = "Literal" -> TRUE
      [] OTHER -> FALSE
\* resolveDefiniteBinaryExpressionsMatch: the BinaryExpression nodes of the
\* type map (whose order is the parser's) that hold only literals
resolveDefiniteBinaryExpressionsMatch(t) ==
    OrdersOf({p \in PathsOf(t) :
                 /\ NodeAt(t, p)[1] = "BinaryExpression"
                 /\ doesBinaryExpressionContainOnlyLiterals(NodeAt(t, p))})

\* `Object.keys(cache) >= CACHE_LIMIT`: the array of keys is converted to a
\* number through its string, the keys joined by commas; that is 0 for no
\* keys and NaN for keys such as rlc-f-12, and NaN >= n is false
ObjectKeysAsNumber(keys) ==
    IF keys = {} THEN [isNaN |-> FALSE, value |-> 0] ELSE [isNaN |-> TRUE, value |-> 0]
KeysAtLimit(keys) ==
    /\ ~ObjectKeysAsNumber(keys).isNaN
    /\ ObjectKeysAsNumber(keys).value >= CACHE_LIMIT
\* if (...) cache.flush(); cache[cacheName] = contextSb;
CacheAfterContextStored(keys, cacheName) ==
    IF KeysAtLimit(keys) THEN {cacheName} ELSE keys \cup {cacheName}
\* the block under `if (!cache[cacheName])`
CacheAfterLookup(keys, cacheName, sandboxRuns) ==
    IF cacheName \in keys THEN keys
    ELSE IF sandboxRuns
         THEN CacheAfterContextStored(keys \cup {cacheName}, cacheName)
         ELSE keys \cup {cacheName}

\* the evaluator's possible answers for the calls of a script
CallResults(t) ==
    IF t[1] = "Program" THEN {BAD_VALUE}
    ELSE {BAD_VALUE, "Literal", "FunctionDeclaration", "Identifier:undefined"}

\* arb.markNode(target, replacement)
markNode(path, replacement, evaluated) ==
    staged' = staged \cup {[target |-> CandidateRange(uTree, path),
                            replacement |-> replacement,
                            evaluated |-> evaluated,
                            stale |-> StaleAt(CandidateRange(uTree, path))]}

UnsafeReset ==
    /\ uPc' = "idle"
    /\ uRule' = "none"
    /\ uTree' = <<"Literal">>
    /\ uMatches' = <<>>
    /\ ui' = 1
    /\ modifiedRanges' = <<>>
    /\ cache' = {}
    /\ staged' = {}
    /\ lastResult' = NotEvaluated

\* a rule is called on a script: match, then the transform's loop
BeginTransform(rule, t, matches) ==
    /\ uPc' = "loop"
    /\ uRule' = rule
    /\ uTree' = t
    /\ uMatches' = matches
    /\ ui' = 1
    /\ modifiedRanges' = <<>>
    /\ cache' = {}
    /\ staged' = {}
    /\ lastResult' = NotEvaluated
    /\ UNCHANGED othersThanUnsafe

StartLocalCalls ==
    /\ uPc = "idle"
    /\ \E t \in Trees \cup LongScripts : \E matches \in resolveLocalCallsMatch(t) :
        BeginTransform("resolveLocalCalls", t, matches)
StartBinaryExpressions ==
    /\ uPc = "idle"
    /\ \E t \in Trees : \E matches \in resolveDefiniteBinaryExpressionsMatch(t) :
        BeginTransform("resolveDefiniteBinaryExpressions", t, matches)
StartOtherRule ==
    /\ uPc = "idle"
    /\ \E rule \in OtherRules : \E matches \in {<<>>, << <<>> >>} :
        BeginTransform(rule, <<"Node", CandidateTypeOf(rule)>>, matches)

\* resolveBuiltinCalls is called on a script that holds one call
StartBuiltinCalls ==
    /\ uPc = "idle"
    /\ \E c \in BuiltinCalls :
          BeginTransform("resolveBuiltinCalls", <<"Call", c>>,
                         IF resolveBuiltinCallsMatch(c) THEN << <<>> >> ELSE <<>>)

\* resolveBuiltinCallsTransform on the call
BuiltinCallsStep ==
    /\ uPc = "loop" /\ uRule = "resolveBuiltinCalls" /\ ui <= Len(uMatches)
    /\ ui' = ui + 1
    /\ \E r \in EvalResults, tempValue \in BOOLEAN :
          LET safeImplementation ==
                  CalleeName(uTree[2]) \in AVAILABLE_SAFE_IMPLEMENTATIONS
              reps == resolveBuiltinCallsStages(safeImplementation, tempValue, r)
              evaluated == IF safeImplementation THEN NotEvaluated ELSE r
          IN /\ lastResult' = evaluated
             /\ IF reps = {}
                THEN UNCHANGED staged
                ELSE markNode(uMatches[ui], CHOOSE x \in reps : TRUE, evaluated)
    /\ UNCHANGED <<uPc, uRule, uTree, uMatches, modifiedRanges, cache>>
    /\ UNCHANGED othersThanUnsafe

\* one turn of candidateLoop in resolveLocalCallsTransform
LocalCallsStep ==
    /\ uPc = "loop" /\ uRule = "resolveLocalCalls" /\ ui <= Len(uMatches)
    /\ ui' = ui + 1
    /\ LET c == uMatches[ui]
           node == CandidateNode(uTree, c)
           range == CandidateRange(uTree, c)
           callee == node[2]
           cacheName == <<"rlc", callee.name, callee.id>>
       IN IF \/ isNodeInRanges(range, modifiedRanges)
             \/ node[3][1] = "ThisExpression"
             \/ callee.name = "w"
          THEN /\ lastResult' = NotEvaluated
               /\ UNCHANGED <<cache, staged, modifiedRanges>>
          ELSE IF cacheName \notin cache /\ callee.name \in SKIP_IDENTIFIERS
          THEN /\ lastResult' = NotEvaluated
               /\ cache' = cache \cup {cacheName}
               /\ UNCHANGED <<staged, modifiedRanges>>
          ELSE \E sandboxRuns \in BOOLEAN, r \in CallResults(uTree) :
                  /\ lastResult' = r
                  /\ cache' = CacheAfterLookup(cache, cacheName, sandboxRuns)
                  /\ IF resolveLocalCallsStages(r, FALSE) = {}
                     THEN UNCHANGED <<staged, modifiedRanges>>
                     ELSE /\ markNode(c, r, r)
                          /\ modifiedRanges' = Append(modifiedRanges, range)
    /\ UNCHANGED <<uPc, uRule, uTree, uMatches>>
    /\ UNCHANGED othersThanUnsafe

\* one turn of the loop in resolveDefiniteBinaryExpressionsTransform
BinaryExpressionsStep ==
    /\ uPc = "loop" /\ uRule = "resolveDefiniteBinaryExpressions" /\ ui <= Len(uMatches)
    /\ ui' = ui + 1
    /\ \E r \in {BAD_VALUE, "Literal", "UnaryExpression"} :
          /\ lastResult' = r
          /\ IF resolveDefiniteBinaryExpressionsStages(r) = {}
             THEN UNCHANGED staged
             ELSE markNode(uMatches[ui], r, r)
    /\ UNCHANGED <<uPc, uRule, uTree, uMatches, modifiedRanges, cache>>
    /\ UNCHANGED othersThanUnsafe

\* the transform of one of the other rules on its candidate
OtherRuleStep ==
    /\ uPc = "loop" /\ uRule \in OtherRules /\ ui <= Len(uMatches)
    /\ ui' = ui + 1
    /\ \E r \in EvalResults, flag \in BOOLEAN, flag2 \in BOOLEAN :
          LET reps == OtherRuleStages(uRule, r, flag, flag2)
              evaluated == IF OtherRuleEvaluates(uRule, flag) THEN r ELSE NotEvaluated
          IN /\ lastResult' = evaluated
             /\ IF reps = {}
                THEN UNCHANGED staged
                ELSE markNode(uMatches[ui], CHOOSE x \in reps : TRUE, evaluated)
    /\ UNCHANGED <<uPc, uRule, uTree, uMatches, modifiedRanges, cache>>
    /\ UNCHANGED othersThanUnsafe

\* return arb: the call is over, its edits go to commit
TransformReturn ==
    /\ uPc = "loop" /\ ui > Len(uMatches)
    /\ UnsafeReset
    /\ UNCHANGED othersThanUnsafe

\* no deobfuscation in progress, nothing left behind by an earlier one
DriverIdle ==
    /\ DEFAULT_MAX_ITERATIONS = DefaultMaxIterationsValue
    /\ APPEARANCES = [name \in CalleeNames |-> 0]
    /\ runs = 0
    /\ phase = "idle"
    /\ script = <<>>
    /\ inputScript = <<>>
    /\ family = "Generic"
    /\ clean = FALSE
    /\ maxIterations = DefaultCeiling
    /\ roundStart = <<>>
    /\ returned = FALSE
    /\ funcs = <<>>
    /\ fi = 1
    /\ scriptSnapshot = NoSnapshot
    /\ currentIteration = 0
    /\ aiPc = "none"
    /\ ceilingAtCall = 0

UnsafeInit ==
    /\ UnsafeIdle
    /\ DriverIdle
    /\ SafeIdle
    /\ CliIdle

UnsafeNext ==
    \/ StartBuiltinCalls
    \/ BuiltinCallsStep
    \/ StartLocalCalls
    \/ StartBinaryExpressions
    \/ StartOtherRule
    \/ LocalCallsStep
    \/ BinaryExpressionsStep
    \/ OtherRuleStep
    \/ TransformReturn

SpecUnsafe == UnsafeInit /\ [][UnsafeNext]_vars

(***************************************************************************)
(* Properties of the evaluator-backed rules.                               *)
(***************************************************************************)
\* the candidate the transform has just dealt with
PreviousCandidate == CandidateRange(uTree, uMatches[ui - 1])
EditStagedFor(range) == \E e \in staged : e.target = range

\* C3: in every evaluator-backed rule no edit is staged for a candidate whose
\* evaluation returned BAD_VALUE, and BAD_VALUE is never the replacement
\* handed to markNode.
NoEditForBadValue ==
    /\ \A e \in staged : e.replacement # BAD_VALUE /\ e.evaluated # BAD_VALUE
    /\ (uPc = "loop" /\ ui > 1 /\ lastResult = BAD_VALUE)
          => ~EditStagedFor(PreviousCandidate)

\* a rule has skipped a candidate the evaluator answered BAD_VALUE for
BadValueSkipped ==
    /\ uPc = "loop" /\ ui > 1
    /\ uRule = "resolveMinimalAlphabet"
    /\ lastResult = BAD_VALUE
    /\ staged = {}

DenyListedNeverEvaluated ==
    (uPc = "loop" /\ uRule = "resolveBuiltinCalls" /\ ui > 1
        /\ uTree[2].root \in SKIP_BUILTIN_FUNCTIONS)
      => lastResult = NotEvaluated

\* C12 as stated: resolveLocalCalls neither evaluates nor replaces a call
\* whose callee is on the global skip-list, whichever place the call has
\* among the candidates.
SkipListedCalleeNeverEvaluated ==
    (uPc = "loop" /\ uRule = "resolveLocalCalls" /\ ui > 1
        /\ CandidateNode(uTree, uMatches[ui - 1])[2].name \in SKIP_IDENTIFIERS)
      => /\ lastResult = NotEvaluated
         /\ ~EditStagedFor(PreviousCandidate)

\* C9 as stated: the cache never holds more than CACHE_LIMIT entries.
CacheWithinLimit == Cardinality(cache) <= CACHE_LIMIT

(***************************************************************************)
(* Rules over a tree of node objects.  A node is an object with an        *)
(* identity: heap[i] is the object of identity i, and a field that holds  *)
(* a node holds its identity (0 for null).  kids lists a node's children  *)
(* in the order of its keys: test, consequent, alternate of an            *)
(* IfStatement; id, init of a VariableDeclarator; left, right of an       *)
(* AssignmentExpression; callee, then the arguments, of a CallExpression; *)
(* object of a MemberExpression, whose property is its name; the body of  *)
(* a Program, a BlockStatement or a function, after the function's id and  *)
(* params where a program gives them as nodes.  decl is an identifier's   *)
(* declNode.                                                               *)
(***************************************************************************)
MaxDeclarators == 3
MaxRefs == 2

Node(t, nm, ps, ks, d) ==
    [type |-> t, name |-> nm, params |-> ps, kids |-> ks, decl |-> d]

Leaf(t, nm) == Node(t, nm, <<>>, <<>>, 0)

Parent(t, ks) == Node(t, "", <<>>, ks, 0)

\* the members of a set of identities, in ascending order
SortedSeq(S) ==
    [k \in 1..Cardinality(S) |->
        CHOOSE x \in S : Cardinality({y \in S : y < x}) = k - 1]

\* the identities of the nodes of the tree under node i
RECURSIVE NodesUnder(_, _)
NodesUnder(h, i) ==
    IF i = 0 THEN {}
    ELSE {i} \cup UNION {NodesUnder(h, k) : k \in Range(h[i].kids)}

\* arb.ast[0].typeMap[t]
typeMap(h, root, t) ==
    SortedSeq({i \in NodesUnder(h, root) : h[i].type = t})

\* n.parentNode, and the place of n among its parent's children
parentNode(h, root, n) ==
    IF \E p \in NodesUnder(h, root) : n \in Range(h[p].kids)
    THEN CHOOSE p \in NodesUnder(h, root) : n \in Range(h[p].kids)
    ELSE 0

parentKey(h, root, n) ==
    LET ks == h[parentNode(h, root, n)].kids
    IN  CHOOSE k \in DOMAIN ks : ks[k] = n

\* declNode.references
references(h, root, d) ==
    SortedSeq({i \in NodesUnder(h, root) :
                  h[i].type = "Identifier" /\ h[i].decl = d})

\* a match, as the transform receives it
MatchOf(n, repl, refs) == [node |-> n, replacement |-> repl, references |-> refs]

Edit(target, repl) == [target |-> target, replacement |-> repl]

\* markNode with no replacement: the node is to be deleted
Deleted == 0

\* the branches an if statement is given
BranchKinds == {"EmptyStatement", "EmptyBlock", "Populated"}

Branch(kind) ==
    CASE kind = "EmptyStatement" -> Leaf("EmptyStatement", ";")
      [] kind = "EmptyBlock"     -> Leaf("BlockStatement", "{}")
      [] OTHER                   -> Leaf("ExpressionStatement", "b()")

\* if (t) <cons> [else <alt>]
IfProgram(cons, alt) ==
    << Parent("Program", <<2>>),
       Parent("IfStatement", <<3, 4, IF alt = "null" THEN 0 ELSE 5>>),
       Leaf("Identifier", "t"),
       Branch(cons) >>
    \o (IF alt = "null" THEN <<>> ELSE <<Branch(alt)>>)

\* function outer(a) { return function inner(b) {}.apply(this, arguments); }
ShellProgram(outerNamed, innerNamed, outerParams, innerParams, prop) ==
    << Parent("Program", <<2>>),
       Node(IF outerNamed THEN "FunctionDeclaration" ELSE "FunctionExpression",
            IF outerNamed THEN "outer" ELSE "", outerParams, <<3>>, 0),
       Parent("ReturnStatement", <<4>>),
       Parent("CallExpression", <<5, 7, 8>>),
       Node("MemberExpression", prop, <<>>, <<6>>, 0),
       Node("FunctionExpression", IF innerNamed THEN "inner" ELSE "",
            innerParams, <<>>, 0),
       Leaf("ThisExpression", "this"),
       Leaf("Identifier", "arguments") >>

DeclaratorNames == <<"a", "b", "c", "d", "e">>

\* var a, b, c;  as a statement of the program, as the consequent of an if
\* statement, or as the init of a for statement
DeclProgram(n, parentType) ==
    LET first == IF parentType = "Program" THEN 3
                 ELSE IF parentType = "IfStatement" THEN 5 ELSE 4
        decl  == Node("VariableDeclaration", "var", <<>>,
                      [i \in 1..n |-> first + i - 1], 0)
        ds    == [i \in 1..n |-> Leaf("VariableDeclarator", DeclaratorNames[i])]
    IN  CASE parentType = "Program" ->
               <<Parent("Program", <<2>>), decl>> \o ds
          [] parentType = "IfStatement" ->
               <<Parent("Program", <<2>>), Parent("IfStatement", <<3, 4, 0>>),
                 Leaf("Identifier", "t"), decl>> \o ds
          [] OTHER ->
               <<Parent("Program", <<2>>), Parent("ForStatement", <<3>>),
                 decl>> \o ds

\* var x = <init>; x; x;
RefProgram(initType, nRefs) ==
    << Parent("Program", <<2>> \o [j \in 1..nRefs |-> 4 + 2 * j]),
       Parent("VariableDeclaration", <<3>>),
       Node("VariableDeclarator", "x", <<>>, <<4, 5>>, 0),
       Leaf("Identifier", "x"),
       Leaf(initType, IF initType = "Literal" THEN "3" ELSE "t") >>
    \o [k \in 1..(2 * nRefs) |->
           IF k % 2 = 1 THEN Parent("ExpressionStatement", <<5 + k + 1>>)
           ELSE Node("Identifier", "x", <<>>, <<>>, 4)]

\* var o = {}; o.a = <right>; o.a; o.a;
AssignProgram(rightType, nRefs) ==
    << Parent("Program", <<2, 6>> \o [j \in 1..nRefs |-> 8 + 3 * j]),
       Parent("VariableDeclaration", <<3>>),
       Node("VariableDeclarator", "o", <<>>, <<4, 5>>, 0),
       Leaf("Identifier", "o"),
       Leaf("ObjectExpression", "{}"),
       Parent("ExpressionStatement", <<7>>),
       Parent("AssignmentExpression", <<8, 10>>),
       Node("MemberExpression", "a", <<>>, <<9>>, 0),
       Node("Identifier", "o", <<>>, <<>>, 4),
       Leaf(rightType, IF rightType = "Literal" THEN "3" ELSE "t") >>
    \o [k \in 1..(3 * nRefs) |->
           CASE k % 3 = 1 -> Parent("ExpressionStatement", <<10 + k + 1>>)
             [] k % 3 = 2 -> Node("MemberExpression", "a", <<>>, <<10 + k + 1>>, 0)
             [] OTHER     -> Node("Identifier", "o", <<>>, <<>>, 4)]

\* var a = 1; var b = a; a = 2; b = 2; b; b;  with or without each write
ProxyProgram(targetWritten, proxyWritten, nRefs) ==
    LET write(at, d, nm) ==
            << Parent("ExpressionStatement", <<at + 1>>),
               Parent("AssignmentExpression", <<at + 2, at + 3>>),
               Node("Identifier", nm, <<>>, <<>>, d),
               Leaf("Literal", "2") >>
        w1  == IF targetWritten THEN write(10, 4, "a") ELSE <<>>
        at2 == 10 + Len(w1)
        w2  == IF proxyWritten THEN write(at2, 8, "b") ELSE <<>>
        at3 == at2 + Len(w2)
    IN  << Parent("Program",
                  <<2, 6>> \o (IF targetWritten THEN <<10>> ELSE <<>>)
                          \o (IF proxyWritten THEN <<at2>> ELSE <<>>)
                          \o [j \in 1..nRefs |-> at3 + 2 * j - 2]),
           Parent("VariableDeclaration", <<3>>),
           Node("VariableDeclarator", "a", <<>>, <<4, 5>>, 0),
           Leaf("Identifier", "a"),
           Leaf("Literal", "1"),
           Parent("VariableDeclaration", <<7>>),
           Node("VariableDeclarator", "b", <<>>, <<8, 9>>, 0),
           Leaf("Identifier", "b"),
           Node("Identifier", "a", <<>>, <<>>, 4) >>
        \o w1 \o w2
        \o [k \in 1..(2 * nRefs) |->
               IF k % 2 = 1 THEN Parent("ExpressionStatement", <<at3 + k>>)
               ELSE Node("Identifier", "b", <<>>, <<>>, 8)]

\* var a = b; var b = a; a; a;
CircularProgram(nRefs) ==
    << Parent("Program", <<2, 6>> \o [j \in 1..nRefs |-> 8 + 2 * j]),
       Parent("VariableDeclaration", <<3>>),
       Node("VariableDeclarator", "a", <<>>, <<4, 5>>, 0),
       Leaf("Identifier", "a"),
       Node("Identifier", "b", <<>>, <<>>, 8),
       Parent("VariableDeclaration", <<7>>),
       Node("VariableDeclarator", "b", <<>>, <<8, 9>>, 0),
       Leaf("Identifier", "b"),
       Node("Identifier", "a", <<>>, <<>>, 4) >>
    \o [k \in 1..(2 * nRefs) |->
           IF k % 2 = 1 THEN Parent("ExpressionStatement", <<9 + k + 1>>)
           ELSE Node("Identifier", "a", <<>>, <<>>, 4)]

\* the forms of an access to the property a of o: o.a, o['a'], o[k]
AccessForms == {"dot", "literal", "identifier"}

MemberAccess(at, form) ==
    << Node("MemberExpression", IF form = "dot" THEN "a" ELSE "", <<>>,
            <<at + 1>> \o (IF form = "dot" THEN <<>> ELSE <<at + 2>>), 0),
       Node("Identifier", "o", <<>>, <<>>, 4) >>
    \o (CASE form = "dot"     -> <<>>
          [] form = "literal" -> <<Leaf("Literal", "'a'")>>
          [] OTHER            -> <<Leaf("Identifier", "k")>>)

\* var o = {}; o.a = 3; <other>; <read>;  or with the read before the other
\* access, which is o.a = 4 or o.a++ in one of the forms, or is absent
AccessProgram(other, otherForm, readForm, otherFirst) ==
    LET otherAt(at) ==
            IF other = "none" THEN <<>>
            ELSE LET m == MemberAccess(at + 2, otherForm)
                 IN  << Parent("ExpressionStatement", <<at + 1>>),
                        IF other = "assign"
                        THEN Parent("AssignmentExpression", <<at + 2, at + 2 + Len(m)>>)
                        ELSE Parent("UpdateExpression", <<at + 2>>) >>
                     \o m
                     \o (IF other = "assign" THEN <<Leaf("Literal", "4")>> ELSE <<>>)
        readAt(at) ==
            <<Parent("ExpressionStatement", <<at + 1>>)>> \o MemberAccess(at + 1, readForm)
        first  == IF otherFirst THEN otherAt(11) ELSE readAt(11)
        second == IF otherFirst THEN readAt(11 + Len(first))
                  ELSE otherAt(11 + Len(first))
    IN  << Parent("Program",
                  <<2, 6>> \o (IF first = <<>> THEN <<>> ELSE <<11>>)
                          \o (IF second = <<>> THEN <<>> ELSE <<11 + Len(first)>>)),
           Parent("VariableDeclaration", <<3>>),
           Node("VariableDeclarator", "o", <<>>, <<4, 5>>, 0),
           Leaf("Identifier", "o"),
           Leaf("ObjectExpression", "{}"),
           Parent("ExpressionStatement", <<7>>),
           Parent("AssignmentExpression", <<8, 10>>),
           Node("MemberExpression", "a", <<>>, <<9>>, 0),
           Node("Identifier", "o", <<>>, <<>>, 4),
           Leaf("Literal", "3") >>
        \o first \o second

\* the bodies a wrapper of a simple operation is given, over its
\* parameters a and b
OperationBodies == {"a-b", "b-a", "a-a", "b-b", "-a", "-b"}

ArgumentNames == <<"x", "y", "z">>

\* function op(a, b) { return <body>; } op(x, y);  with one to three
\* arguments
OperationProgram(body, nArgs) ==
    LET param(c) == Node("Identifier", c, <<>>, <<>>, IF c = "a" THEN 4 ELSE 5)
        operation ==
            CASE body = "a-b" -> <<Node("BinaryExpression", "-", <<>>, <<9, 10>>, 0),
                                   param("a"), param("b")>>
              [] body = "b-a" -> <<Node("BinaryExpression", "-", <<>>, <<9, 10>>, 0),
                                   param("b"), param("a")>>
              [] body = "a-a" -> <<Node("BinaryExpression", "-", <<>>, <<9, 10>>, 0),
                                   param("a"), param("a")>>
              [] body = "b-b" -> <<Node("BinaryExpression", "-", <<>>, <<9, 10>>, 0),
                                   param("b"), param("b")>>
              [] body = "-a"  -> <<Node("UnaryExpression", "-", <<>>, <<9>>, 0),
                                   param("a")>>
              [] OTHER        -> <<Node("UnaryExpression", "-", <<>>, <<9>>, 0),
                                   param("b")>>
        at == 8 + Len(operation)
    IN  << Parent("Program", <<2, at>>),
           Node("FunctionDeclaration", "op", <<"a", "b">>, <<3, 4, 5, 6>>, 0),
           Leaf("Identifier", "op"),
           Leaf("Identifier", "a"),
           Leaf("Identifier", "b"),
           Parent("BlockStatement", <<7>>),
           Parent("ReturnStatement", <<8>>) >>
        \o operation
        \o << Parent("ExpressionStatement", <<at + 1>>),
              Parent("CallExpression", <<at + 2>> \o [j \in 1..nArgs |-> at + 2 + j]),
              Node("Identifier", "op", <<>>, <<>>, 3) >>
        \o [j \in 1..nArgs |-> Leaf("Identifier", ArgumentNames[j])]

\* what a function shell returns: a literal, its parameter, a variable
\* declared in its body, a name declared nowhere in the program
ReturnedKinds == {"literal", "param", "local", "global"}

\* function f(a) { return <value>; [var v;] }  followed by the call f(1);
\* or by the reference f;
ValueShellProgram(value, isCalled) ==
    LET local == IF value = "local"
                 THEN << Parent("VariableDeclaration", <<9>>),
                         Node("VariableDeclarator", "v", <<>>, <<10, 0>>, 0),
                         Leaf("Identifier", "v") >>
                 ELSE <<>>
        at    == 8 + Len(local)
    IN  << Parent("Program", <<2, at>>),
           Node("FunctionDeclaration", "f", <<"a">>, <<3, 4, 5>>, 0),
           Leaf("Identifier", "f"),
           Leaf("Identifier", "a"),
           Parent("BlockStatement", <<6>> \o (IF value = "local" THEN <<8>> ELSE <<>>)),
           Parent("ReturnStatement", <<7>>),
           CASE value = "literal" -> Leaf("Literal", "3")
             [] value = "param"   -> Node("Identifier", "a", <<>>, <<>>, 4)
             [] value = "local"   -> Node("Identifier", "v", <<>>, <<>>, 10)
             [] OTHER                -> Leaf("Identifier", "g") >>
        \o local
        \o (IF isCalled
            THEN << Parent("ExpressionStatement", <<at + 1>>),
                    Parent("CallExpression", <<at + 2, at + 3>>),
                    Node("Identifier", "f", <<>>, <<>>, 3),
                    Leaf("Literal", "1") >>
            ELSE << Parent("ExpressionStatement", <<at + 1>>),
                    Node("Identifier", "f", <<>>, <<>>, 3) >>)

\* var x = 3; ({x: 1}); x;  or with the computed key [x]; the key of a
\* property that is not computed is a name, bound to no declaration
KeyProgram(computed, nRefs) ==
    << Parent("Program", <<2, 6>> \o [j \in 1..nRefs |-> 9 + 2 * j]),
       Parent("VariableDeclaration", <<3>>),
       Node("VariableDeclarator", "x", <<>>, <<4, 5>>, 0),
       Leaf("Identifier", "x"),
       Leaf("Literal", "3"),
       Parent("ExpressionStatement", <<7>>),
       Parent("ObjectExpression", <<8>>),
       Node("Property", IF computed THEN "computed" ELSE "", <<>>, <<9, 10>>, 0),
       Node("Identifier", "x", <<>>, <<>>, IF computed THEN 4 ELSE 0),
       Leaf("Literal", "1") >>
    \o [k \in 1..(2 * nRefs) |->
           IF k % 2 = 1 THEN Parent("ExpressionStatement", <<10 + k + 1>>)
           ELSE Node("Identifier", "x", <<>>, <<>>, 4)]

\* the places an immediately invoked function is given: a statement of
\* its own, the operand of ! in a statement, the init of a declarator
IIFEForms == {"plain", "unary", "init"}

\* a(); (function () { b(); c(); })(); d();  or with !function ... or with
\* var v = function ...; the body is b(); c(); or return r;
IIFEProgram(form, body) ==
    LET wrap == CASE form = "plain" ->
                       << Parent("ExpressionStatement", <<5>>) >>
                  [] form = "unary" ->
                       << Parent("ExpressionStatement", <<5>>),
                          Node("UnaryExpression", "!", <<>>, <<6>>, 0) >>
                  [] OTHER ->
                       << Parent("VariableDeclaration", <<5>>),
                          Node("VariableDeclarator", "v", <<>>, <<6, 7>>, 0),
                          Leaf("Identifier", "v") >>
        call == 4 + Len(wrap)
    IN  << Parent("Program", <<2, 3, 4>>),
           Leaf("ExpressionStatement", "a()"),
           wrap[1],
           Leaf("ExpressionStatement", "d()") >>
        \o Tail(wrap)
        \o << Parent("CallExpression", <<call + 1>>),
              Parent("FunctionExpression", <<call + 2>>),
              Parent("BlockStatement",
                     IF body = "return" THEN <<call + 3>> ELSE <<call + 3, call + 4>>) >>
        \o (IF body = "return"
            THEN << Parent("ReturnStatement", <<call + 4>>), Leaf("Identifier", "r") >>
            ELSE << Leaf("ExpressionStatement", "b()"),
                    Leaf("ExpressionStatement", "c()") >>)

\* the objects, the contexts and the argument lists a call through call
\* or apply is given
CallObjects == {"f", "Function", "FunctionExpression"}

CallContexts == {"this", "null", "1", "x"}

CallArguments == {"none", "array", "identifier", "plain"}

\* f.<method>(<context>, <arguments>);  the arguments being absent, the
\* array [a, b], the identifier args, or a, b
CallProgram(object, method, context, arguments) ==
    << Parent("Program", <<2>>),
       Parent("ExpressionStatement", <<3>>),
       Parent("CallExpression",
              CASE arguments = "none"  -> <<4, 6>>
                [] arguments = "plain" -> <<4, 6, 7, 8>>
                [] OTHER               -> <<4, 6, 7>>),
       Node("MemberExpression", method, <<>>, <<5>>, 0),
       IF object = "FunctionExpression" THEN Leaf("FunctionExpression", "")
       ELSE Leaf("Identifier", object),
       CASE context = "this" -> Leaf("ThisExpression", "this")
         [] context = "x"    -> Leaf("Identifier", "x")
         [] OTHER            -> Leaf("Literal", context) >>
    \o (CASE arguments = "none"       -> <<>>
          [] arguments = "array"      ->
                 << Parent("ArrayExpression", <<8, 9>>),
                    Leaf("Identifier", "a"), Leaf("Identifier", "b") >>
          [] arguments = "identifier" -> << Leaf("Identifier", "args") >>
          [] OTHER                    ->
                 << Leaf("Identifier", "a"), Leaf("Identifier", "b") >>)

\* the properties an access to the array is given: the literals 0, 1, 21
\* and '1', the identifier i, the name length
ArrayProperties == {"0", "1", "21", "'1'", "i", "length"}

\* var A = [0, , 0, ..., 0];  with len elements, the second one a hole,
\* followed by A[<property>]; or by A[<property>] = 5;
ArrayProgram(len, property, written) ==
    LET at     == 6 + len
        member == IF written THEN at + 2 ELSE at + 1
    IN  << Parent("Program", <<2, at>>),
           Parent("VariableDeclaration", <<3>>),
           Node("VariableDeclarator", "A", <<>>, <<4, 5>>, 0),
           Leaf("Identifier", "A"),
           Parent("ArrayExpression", [j \in 1..len |-> IF j = 2 THEN 0 ELSE 5 + j]) >>
        \o [j \in 1..len |-> Leaf("Literal", "0")]
        \o << Parent("ExpressionStatement", <<at + 1>>) >>
        \o (IF written
            THEN << Parent("AssignmentExpression", <<member, member + 3>>) >>
            ELSE <<>>)
        \o << IF property = "length"
              THEN Node("MemberExpression", "length", <<>>, <<member + 1>>, 0)
              ELSE Node("MemberExpression", "", <<>>, <<member + 1, member + 2>>, 0),
              Node("Identifier", "A", <<>>, <<>>, 4),
              IF property \in {"i", "length"} THEN Leaf("Identifier", property)
              ELSE Leaf("Literal", property) >>
        \o (IF written THEN << Leaf("Literal", "1") >> ELSE <<>>)

\* var a, b; var c, d;  two declarations in the body of the program, of
\* n1 and n2 declarators
ChainsProgram(n1, n2) ==
    << Parent("Program", <<2, 3>>),
       Node("VariableDeclaration", "var", <<>>, [i \in 1..n1 |-> 3 + i], 0),
       Node("VariableDeclaration", "var", <<>>, [i \in 1..n2 |-> 3 + n1 + i], 0) >>
    \o [i \in 1..(n1 + n2) |-> Leaf("VariableDeclarator", DeclaratorNames[i])]

\* the unary operators and the literals an if statement's test is made of
UnaryOperators == {"-", "+", "!", "~", "typeof", "void"}

LiteralRaws == {"0", "1", "''", "'a'", "'1'", "true", "false", "null", "/a/"}

\* if (<op> <literal>) b(); [else c();]   op "" is no operator
DeterministicIfProgram(op, raw, hasAlternate) ==
    LET lit == IF hasAlternate THEN 6 ELSE 5
    IN  << Parent("Program", <<2>>),
           Parent("IfStatement", <<3, 4, IF hasAlternate THEN 5 ELSE 0>>),
           IF op = "" THEN Leaf("Literal", raw)
           ELSE Node("UnaryExpression", op, <<>>, <<lit>>, 0),
           Leaf("ExpressionStatement", "b()") >>
        \o (IF hasAlternate THEN <<Leaf("ExpressionStatement", "c()")>> ELSE <<>>)
        \o (IF op = "" THEN <<>> ELSE <<Leaf("Literal", raw)>>)

\* the operands a logical expression is given: the identifier is the
\* operand whose value is not known
OperandKinds ==
    {"Identifier", "true", "0", "''", "null", "/a/", "ArrayExpression",
     "ObjectExpression", "FunctionExpression"}

Operand(kind, nm) ==
    IF kind = "Identifier" THEN Leaf("Identifier", nm)
    ELSE IF kind \in LiteralRaws THEN Leaf("Literal", kind)
    ELSE Leaf(kind, "")

\* if (<left> <operator> <right>) b();
LogicalProgram(operator, leftKind, rightKind) ==
    << Parent("Program", <<2>>),
       Parent("IfStatement", <<3, 4, 0>>),
       Node("LogicalExpression", operator, <<>>, <<5, 6>>, 0),
       Leaf("ExpressionStatement", "b()"),
       Operand(leftKind, "x"),
       Operand(rightKind, "y") >>

\* var s = <init>;
\* switch (s) { case 0: a(); s = <next0>; break; case 1: b(); s = <next1>; break; }
\* a next of "none" is a case without the assignment
SwitchProgram(init, next0, next1) ==
    LET assign(at, raw) ==
            << Parent("ExpressionStatement", <<at + 1>>),
               Parent("AssignmentExpression", <<at + 2, at + 3>>),
               Node("Identifier", "s", <<>>, <<>>, 4),
               Leaf("Literal", raw) >>
        a0  == IF next0 = "none" THEN <<>> ELSE assign(16, next0)
        at1 == 16 + Len(a0)
        a1  == IF next1 = "none" THEN <<>> ELSE assign(at1, next1)
    IN  << Parent("Program", <<2, 6>>),
           Parent("VariableDeclaration", <<3>>),
           Node("VariableDeclarator", "s", <<>>, <<4, 5>>, 0),
           Leaf("Identifier", "s"),
           Leaf("Literal", init),
           Parent("SwitchStatement", <<7, 8, 9>>),
           Node("Identifier", "s", <<>>, <<>>, 4),
           Parent("SwitchCase",
                  <<10, 12>> \o (IF next0 = "none" THEN <<>> ELSE <<16>>) \o <<14>>),
           Parent("SwitchCase",
                  <<11, 13>> \o (IF next1 = "none" THEN <<>> ELSE <<at1>>) \o <<15>>),
           Leaf("Literal", "0"),
           Leaf("Literal", "1"),
           Leaf("ExpressionStatement", "a()"),
           Leaf("ExpressionStatement", "b()"),
           Leaf("BreakStatement", "break"),
           Leaf("BreakStatement", "break") >>
        \o a0 \o a1

\* var s = <init>; switch (s) { default: a(); break; case 1: b(); break; }
\* with the default case before or after the case with the test
SwitchDefaultProgram(init, defaultFirst) ==
    << Parent("Program", <<2, 6>>),
       Parent("VariableDeclaration", <<3>>),
       Node("VariableDeclarator", "s", <<>>, <<4, 5>>, 0),
       Leaf("Identifier", "s"),
       Leaf("Literal", init),
       Parent("SwitchStatement", <<7>> \o (IF defaultFirst THEN <<8, 9>> ELSE <<9, 8>>)),
       Node("Identifier", "s", <<>>, <<>>, 4),
       Parent("SwitchCase", <<0, 11, 13>>),
       Parent("SwitchCase", <<10, 12, 14>>),
       Leaf("Literal", "1"),
       Leaf("ExpressionStatement", "a()"),
       Leaf("ExpressionStatement", "b()"),
       Leaf("BreakStatement", "break"),
       Leaf("BreakStatement", "break") >>

\* function outer() { var x = 3; x; }, or in the place of the variable
\* function g() {} with the use g;, or function g(p) {} with the use g;
NestedProgram(form, used) ==
    LET declared ==
            CASE form = "var" ->
                   << Parent("VariableDeclaration", <<5>>),
                      Node("VariableDeclarator", "x", <<>>, <<6, 7>>, 0),
                      Leaf("Identifier", "x"),
                      Leaf("Literal", "3") >>
              [] form = "function" ->
                   << Node("FunctionDeclaration", "g", <<>>, <<5>>, 0),
                      Leaf("Identifier", "g") >>
              [] OTHER ->
                   << Node("FunctionDeclaration", "g", <<"p">>, <<5, 6>>, 0),
                      Leaf("Identifier", "g"),
                      Leaf("Identifier", "p") >>
        id   == IF form = "var" THEN 6 ELSE 5
        next == 4 + Len(declared)
    IN  << Parent("Program", <<2>>),
           Node("FunctionDeclaration", "outer", <<>>,
                <<3, 4>> \o (IF used THEN <<next>> ELSE <<>>), 0),
           Leaf("Identifier", "outer") >>
        \o declared
        \o (IF used
            THEN << Parent("ExpressionStatement", <<next + 1>>),
                    Node("Identifier", IF form = "var" THEN "x" ELSE "g",
                         <<>>, <<>>, id) >>
            ELSE <<>>)

(***************************************************************************)
(* The rules.  A match operator answers the list its match function       *)
(* returns; a transform operator answers the node objects as the          *)
(* transform leaves them (an object literal or a spread in the code is a  *)
(* new object at the end of the heap) and the markNode calls it makes, in  *)
(* the order it makes them.                                                *)
(***************************************************************************)
NoChange(h) == [heap |-> h, edits |-> <<>>]

isEmpty(h, i) ==
    \/ i = 0
    \/ h[i].type = "EmptyStatement"
    \/ h[i].type = "BlockStatement" /\ Len(h[i].kids) = 0

createInvertedTest(test) == Node("UnaryExpression", "!", <<>>, <<test>>, 0)

simplifyIfStatementsMatch(h, root) ==
    LET canSimplify(n) ==
            LET consequentEmpty == isEmpty(h, h[n].kids[2])
                alternateEmpty  == isEmpty(h, h[n].kids[3])
            IN  \/ consequentEmpty /\ alternateEmpty
                \/ consequentEmpty /\ ~alternateEmpty
                \/ ~consequentEmpty /\ alternateEmpty
        ns == SelectSeq(typeMap(h, root, "IfStatement"), canSimplify)
    IN  [k \in 1..Len(ns) |-> MatchOf(ns[k], 0, <<>>)]

simplifyIfStatementsTransform(h, root, m) ==
    LET n == m.node
        test == h[n].kids[1]
        consequent == h[n].kids[2]
        alternate == h[n].kids[3]
        isConsequentEmpty == isEmpty(h, consequent)
        isAlternateEmpty == isEmpty(h, alternate)
        new == Len(h) + 1
    IN  IF isConsequentEmpty
        THEN IF isAlternateEmpty
             THEN [heap  |-> Append(h, Parent("ExpressionStatement", <<test>>)),
                   edits |-> <<Edit(n, new)>>]
             ELSE [heap  |-> h \o <<createInvertedTest(test),
                                    Parent("IfStatement", <<new, alternate, 0>>)>>,
                   edits |-> <<Edit(n, new + 1)>>]
        ELSE IF isAlternateEmpty /\ alternate # 0
             THEN [heap  |-> Append(h, [h[n] EXCEPT !.kids[3] = 0]),
                   edits |-> <<Edit(n, new)>>]
             ELSE NoChange(h)

\* the fields of the node createUnwrappedFunction returns
UnwrappedFields(h, outerFunction, innerFunction) ==
    LET copy == h[innerFunction]
        withId == IF h[outerFunction].name # "" /\ copy.name = ""
                  THEN [copy EXCEPT !.name = h[outerFunction].name]
                  ELSE copy
    IN  IF Len(h[outerFunction].params) > 0 /\ Len(withId.params) = 0
        THEN [withId EXCEPT !.params = h[outerFunction].params]
        ELSE withId

\* not the code: the inner function itself is given the id and the params
createUnwrappedFunctionInPlace(h, outerFunction, innerFunction) ==
    [heap |-> [h EXCEPT ![innerFunction] =
                   UnwrappedFields(h, outerFunction, innerFunction)],
     node |-> innerFunction]

createUnwrappedFunction(h, outerFunction, innerFunction) ==
    [heap |-> Append(h, UnwrappedFields(h, outerFunction, innerFunction)),
     node |-> Len(h) + 1]

FUNCTION_TYPES == {"FunctionDeclaration", "FunctionExpression"}

\* n.body.body[0].argument.callee: the callee of the call a shell returns
ShellCallee(h, n) == h[h[h[n].kids[1]].kids[1]].kids[1]

unwrapFunctionShellsMatch(h, root) ==
    LET isShell(n) ==
            /\ h[n].type \in FUNCTION_TYPES
            /\ Len(h[n].kids) = 1
            /\ h[h[n].kids[1]].type = "ReturnStatement"
            /\ Len(h[h[n].kids[1]].kids) = 1
            /\ LET callExpr == h[h[n].kids[1]].kids[1]
               IN  /\ h[callExpr].type = "CallExpression"
                   /\ Len(h[callExpr].kids) = 3
                   /\ h[h[callExpr].kids[1]].type = "MemberExpression"
                   /\ h[h[h[callExpr].kids[1]].kids[1]].type = "FunctionExpression"
                   /\ h[h[callExpr].kids[1]].name = "apply"
        ns == SelectSeq(typeMap(h, root, "FunctionExpression")
                          \o typeMap(h, root, "FunctionDeclaration"), isShell)
    IN  [k \in 1..Len(ns) |-> MatchOf(ns[k], 0, <<>>)]

unwrapFunctionShellsTransform(h, root, m) ==
    LET n == m.node
        innerFunction == h[ShellCallee(h, n)].kids[1]
        made == createUnwrappedFunction(h, n, innerFunction)
    IN  [heap |-> made.heap, edits |-> <<Edit(n, made.node)>>]

FOR_STATEMENT_TYPES == {"ForStatement", "ForInStatement", "ForOfStatement"}

\* the parents whose key holds an array of nodes
ArrayParents == {"Program", "BlockStatement"}

createSingleDeclaration(originalDeclaration, declarator) ==
    Node("VariableDeclaration", originalDeclaration.name, <<>>, <<declarator>>, 0)

\* not the code: the elements after the declaration are left out
createReplacementParentTruncating(h, root, n, separatedDeclarations) ==
    LET p == parentNode(h, root, n)
        idx == parentKey(h, root, n)
        replacedArr == h[p].kids
        new == Len(h) + 1
    IN  IF h[p].type \in ArrayParents
        THEN [heap |-> Append(h, [h[p] EXCEPT !.kids =
                           SubSeq(replacedArr, 1, idx - 1)
                           \o separatedDeclarations]),
              node |-> new]
        ELSE [heap |-> h \o <<Parent("BlockStatement", separatedDeclarations),
                              [h[p] EXCEPT !.kids[idx] = new]>>,
              node |-> new + 1]

createReplacementParent(h, root, n, separatedDeclarations) ==
    LET p == parentNode(h, root, n)
        idx == parentKey(h, root, n)
        replacedArr == h[p].kids
        new == Len(h) + 1
    IN  IF h[p].type \in ArrayParents
        THEN [heap |-> Append(h, [h[p] EXCEPT !.kids =
                           SubSeq(replacedArr, 1, idx - 1)
                           \o separatedDeclarations
                           \o SubSeq(replacedArr, idx + 1, Len(replacedArr))]),
              node |-> new]
        ELSE [heap |-> h \o <<Parent("BlockStatement", separatedDeclarations),
                              [h[p] EXCEPT !.kids[idx] = new]>>,
              node |-> new + 1]

separateChainedDeclaratorsMatch(h, root) ==
    LET chained(n) ==
            /\ Len(h[n].kids) > 1
            /\ h[parentNode(h, root, n)].type \notin FOR_STATEMENT_TYPES
        ns == SelectSeq(typeMap(h, root, "VariableDeclaration"), chained)
    IN  [k \in 1..Len(ns) |-> MatchOf(ns[k], 0, <<>>)]

separateChainedDeclaratorsTransform(h, root, m) ==
    LET n == m.node
        declarations == h[n].kids
        h1 == h \o [i \in 1..Len(declarations) |->
                       createSingleDeclaration(h[n], declarations[i])]
        separatedDeclarations == [i \in 1..Len(declarations) |-> Len(h) + i]
        made == createReplacementParent(h1, root, n, separatedDeclarations)
    IN  [heap |-> made.heap,
         edits |-> <<Edit(parentNode(h, root, n), made.node)>>]

\* n.declNode.parentNode.init, 0 when one of the links is missing
InitOfDeclaration(h, root, d) ==
    LET p == parentNode(h, root, d)
    IN  IF d # 0 /\ p # 0 /\ h[p].type = "VariableDeclarator" /\ Len(h[p].kids) = 2
        THEN h[p].kids[2]
        ELSE 0

\* n.parentKey, for the parents whose children the rule tells apart: the
\* children of an ObjectExpression are its properties, those of a Property
\* its key and its value
parentKeyName(h, root, n) ==
    LET p == parentNode(h, root, n)
    IN  CASE p = 0 -> ""
          [] p # 0 /\ h[p].type = "MemberExpression" ->
                 IF parentKey(h, root, n) = 1 THEN "object" ELSE "property"
          [] p # 0 /\ h[p].type = "Property" ->
                 IF parentKey(h, root, n) = 1 THEN "key" ELSE "value"
          [] p # 0 /\ h[p].type = "ObjectExpression" -> "properties"
          [] p # 0 /\ h[p].type = "ExpressionStatement" -> "expression"
          [] p # 0 /\ h[p].type \in {"UnaryExpression", "ReturnStatement"} -> "argument"
          [] p # 0 /\ h[p].type = "VariableDeclarator" ->
                 IF parentKey(h, root, n) = 1 THEN "id" ELSE "init"
          [] OTHER -> "other"

isObjectPropertyName(h, root, n) ==
    /\ parentKeyName(h, root, n) = "property"
    /\ h[parentNode(h, root, n)].type = "ObjectExpression"

\* whether one of the references given is written: the left side of an
\* assignment
areReferencesModified(h, root, refs) ==
    \E i \in DOMAIN refs :
        \E p \in {parentNode(h, root, refs[i])} :
            /\ p # 0
            /\ h[p].type = "AssignmentExpression"
            /\ h[p].kids[1] = refs[i]

replaceIdentifierWithFixedAssignedValueMatch(h, root) ==
    LET fixed(n) ==
            /\ ~isObjectPropertyName(h, root, n)
            /\ InitOfDeclaration(h, root, h[n].decl) # 0
            /\ h[InitOfDeclaration(h, root, h[n].decl)].type = "Literal"
            /\ ~areReferencesModified(h, root, references(h, root, h[n].decl))
        ns == SelectSeq(typeMap(h, root, "Identifier"), fixed)
    IN  [k \in 1..Len(ns) |-> MatchOf(ns[k], 0, <<>>)]

\* not the code: every reference is given a copy of the value node
replaceIdentifierWithFixedAssignedValueTransformCloning(h, root, m) ==
    LET valueNode == InitOfDeclaration(h, root, h[m.node].decl)
        refs == references(h, root, h[m.node].decl)
    IN  [heap  |-> h \o [i \in 1..Len(refs) |-> h[valueNode]],
         edits |-> [i \in 1..Len(refs) |-> Edit(refs[i], Len(h) + i)]]

replaceIdentifierWithFixedAssignedValueTransform(h, root, m) ==
    LET valueNode == InitOfDeclaration(h, root, h[m.node].decl)
        refs == references(h, root, h[m.node].decl)
    IN  [heap  |-> h,
         edits |-> [i \in 1..Len(refs) |-> Edit(refs[i], valueNode)]]

SUPPORTED_REFERENCE_TYPES == {"Identifier", "MemberExpression"}

LOOP_STATEMENT_TYPES ==
    FOR_STATEMENT_TYPES \cup {"WhileStatement", "DoWhileStatement"}

isProxyReferencePattern(h, root, declaratorNode) ==
    /\ Len(h[declaratorNode].kids) = 2
    /\ h[declaratorNode].kids[2] # 0
    /\ h[h[declaratorNode].kids[1]].type \in SUPPORTED_REFERENCE_TYPES
    /\ h[h[declaratorNode].kids[2]].type \in SUPPORTED_REFERENCE_TYPES
    /\ LET decl == parentNode(h, root, declaratorNode)
           stmt == IF decl = 0 THEN 0 ELSE parentNode(h, root, decl)
       IN  stmt = 0 \/ h[stmt].type \notin LOOP_STATEMENT_TYPES

\* the proxy neither points at itself nor is part of what it points at
isReplacementSafe(h, proxyIdentifier, replacementNode) ==
    /\ h[replacementNode].decl # proxyIdentifier
    /\ proxyIdentifier \notin NodesUnder(h, replacementNode)

resolveProxyReferencesMatch(h, root) ==
    LET proxy(n) ==
            /\ isProxyReferencePattern(h, root, n)
            /\ Len(references(h, root, h[n].kids[1])) > 0
            /\ isReplacementSafe(h, h[n].kids[1], h[n].kids[2])
            /\ ~areReferencesModified(h, root, references(h, root, h[n].kids[1]))
            /\ ~areReferencesModified(h, root, <<h[n].kids[2]>>)
        ns == SelectSeq(typeMap(h, root, "VariableDeclarator"), proxy)
    IN  [k \in 1..Len(ns) |->
            MatchOf(ns[k], h[ns[k]].kids[2], references(h, root, h[ns[k]].kids[1]))]

resolveProxyReferencesTransform(h, root, m) ==
    [heap  |-> h,
     edits |-> [i \in 1..Len(m.references) |-> Edit(m.references[i], m.replacement)]]

isProxyVariablePattern(h, declaratorNode) ==
    /\ Len(h[declaratorNode].kids) = 2
    /\ h[declaratorNode].kids[2] # 0
    /\ h[h[declaratorNode].kids[2]].type = "Identifier"

\* a match with no references is one whose declarator is to be removed
resolveProxyVariablesMatch(h, root) ==
    LET proxy(n) == isProxyVariablePattern(h, n)
        ns == SelectSeq(typeMap(h, root, "VariableDeclarator"), proxy)
    IN  [k \in 1..Len(ns) |->
            MatchOf(ns[k], h[ns[k]].kids[2], references(h, root, h[ns[k]].kids[1]))]

resolveProxyVariablesTransform(h, root, m) ==
    IF Len(m.references) = 0
    THEN [heap |-> h, edits |-> <<Edit(m.node, Deleted)>>]
    ELSE IF areReferencesModified(h, root, m.references)
    THEN NoChange(h)
    ELSE [heap  |-> h,
          edits |-> [i \in 1..Len(m.references) |->
                        Edit(m.references[i], m.replacement)]]

(***************************************************************************)
(* The values of the language, as far as the tests of if statements need  *)
(* them: a number is an integer or NaN, and a value is converted as the   *)
(* language converts it.                                                   *)
(***************************************************************************)
JsValue(k, n, s) == [kind |-> k, num |-> n, str |-> s]

JsNumber(n) == JsValue("number", n, "")

JsString(s) == JsValue("string", 0, s)

JsBoolean(b) == JsValue("boolean", IF b THEN 1 ELSE 0, "")

JsNull == JsValue("null", 0, "")

JsUndefined == JsValue("undefined", 0, "")

JsNaN == JsValue("NaN", 0, "")

\* Literal.value of the literal written raw
LiteralValue(raw) ==
    CASE raw = "0"     -> JsNumber(0)
      [] raw = "1"     -> JsNumber(1)
      [] raw = "''"    -> JsString("")
      [] raw = "'a'"   -> JsString("a")
      [] raw = "'1'"   -> JsString("1")
      [] raw = "true"  -> JsBoolean(TRUE)
      [] raw = "false" -> JsBoolean(FALSE)
      [] raw = "/a/"   -> JsValue("object", 0, "/a/")
      [] raw = "21"    -> JsNumber(21)
      [] OTHER         -> JsNull

ToNumber(v) ==
    CASE v.kind = "number"  -> v
      [] v.kind = "boolean" -> JsNumber(v.num)
      [] v.kind = "null"    -> JsNumber(0)
      [] v.kind = "string"  ->
             IF v.str = "" THEN JsNumber(0)
             ELSE IF v.str = "1" THEN JsNumber(1) ELSE JsNaN
      [] OTHER -> JsNaN

ToBoolean(v) ==
    CASE v.kind = "number"  -> v.num # 0
      [] v.kind = "boolean" -> v.num = 1
      [] v.kind = "string"  -> v.str # ""
      [] v.kind = "object"  -> TRUE
      [] OTHER -> FALSE

TypeOf(v) ==
    CASE v.kind \in {"number", "NaN"} -> "number"
      [] v.kind = "null" -> "object"
      [] OTHER -> v.kind

\* the value of <operator> <argument> in the language
UnaryValue(operator, argument) ==
    CASE operator = "-" ->
             IF ToNumber(argument) = JsNaN THEN JsNaN
             ELSE JsNumber(0 - ToNumber(argument).num)
      [] operator = "+" -> ToNumber(argument)
      [] operator = "!" -> JsBoolean(~ToBoolean(argument))
      [] operator = "~" ->
             IF ToNumber(argument) = JsNaN THEN JsNumber(-1)
             ELSE JsNumber(0 - (ToNumber(argument).num + 1))
      [] operator = "typeof" -> JsString(TypeOf(argument))
      [] OTHER -> JsUndefined

isLiteralTruthy(value) ==
    IF \/ value = JsBoolean(FALSE)
       \/ value = JsNumber(0)
       \/ value = JsString("")
       \/ value = JsNull
       \/ value = JsUndefined
    THEN FALSE
    ELSE IF value = JsNaN THEN FALSE
    ELSE TRUE

evaluateTestValue(h, testNode) ==
    IF h[testNode].type = "Literal"
    THEN LiteralValue(h[testNode].name)
    ELSE IF /\ h[testNode].type = "UnaryExpression"
            /\ h[h[testNode].kids[1]].type = "Literal"
    THEN LET argument == LiteralValue(h[h[testNode].kids[1]].name)
             operator == h[testNode].name
         IN  IF operator \in {"-", "+", "!", "~"}
             THEN UnaryValue(operator, argument)
             ELSE argument
    ELSE JsUndefined

\* the branch that takes the if statement's place, 0 for none
getReplacementNode(h, ifNode) ==
    IF isLiteralTruthy(evaluateTestValue(h, h[ifNode].kids[1]))
    THEN h[ifNode].kids[2]
    ELSE h[ifNode].kids[3]

resolveDeterministicIfStatementsMatch(h, root) ==
    LET literalTest(n) ==
            /\ h[n].kids[1] # 0
            /\ \/ h[h[n].kids[1]].type = "Literal"
               \/ /\ h[h[n].kids[1]].type = "UnaryExpression"
                  /\ h[h[n].kids[1]].kids[1] # 0
                  /\ h[h[h[n].kids[1]].kids[1]].type = "Literal"
        ns == SelectSeq(typeMap(h, root, "IfStatement"), literalTest)
    IN  [k \in 1..Len(ns) |-> MatchOf(ns[k], 0, <<>>)]

resolveDeterministicIfStatementsTransform(h, root, m) ==
    LET replacementNode == getReplacementNode(h, m.node)
    IN  [heap  |-> h,
         edits |-> IF replacementNode # 0
                   THEN <<Edit(m.node, replacementNode)>>
                   ELSE <<Edit(m.node, Deleted)>>]

(***************************************************************************)
(* resolveMemberExpressionsWithDirectAssignment.  The children of a       *)
(* MemberExpression are its object and, when it is computed, its          *)
(* property; the property of one that is not computed is its name.        *)
(***************************************************************************)
\* the name of the property, the value of a literal property of a computed
\* access, null for any other computed access
getPropertyName(h, memberExpr) ==
    IF Len(h[memberExpr].kids) = 2
    THEN IF h[h[memberExpr].kids[2]].type = "Literal"
         THEN LiteralValue(h[h[memberExpr].kids[2]].name)
         ELSE JsNull
    ELSE JsString(h[memberExpr].name)

\* not the code: an update expression is not taken for a modification
isModifyingReferenceByAssignmentOnly(h, root, memberExpr) ==
    \E parent \in {parentNode(h, root, memberExpr)} :
        /\ parent # 0
        /\ h[parent].type = "AssignmentExpression"
        /\ parentKey(h, root, memberExpr) = 1

isModifyingReference(h, root, memberExpr) ==
    \E parent \in {parentNode(h, root, memberExpr)} :
        /\ parent # 0
        /\ \/ h[parent].type = "UpdateExpression"
           \/ /\ h[parent].type = "AssignmentExpression"
              /\ parentKey(h, root, memberExpr) = 1

\* the programs given have one scope
findReplaceablePropertyReferences(h, root, objectDeclNode, propertyName, assignmentMemberExpr) ==
    LET sameProperty(ref) ==
            \E memberExpr \in {parentNode(h, root, ref)} :
                /\ memberExpr # 0
                /\ h[memberExpr].type = "MemberExpression"
                /\ memberExpr # assignmentMemberExpr
                /\ getPropertyName(h, memberExpr) = propertyName
        modifying(ref) ==
            \E memberExpr \in {parentNode(h, root, ref)} :
                isModifyingReference(h, root, memberExpr)
        refs == SelectSeq(references(h, root, objectDeclNode), sameProperty)
    IN  IF Len(SelectSeq(refs, modifying)) > 0 THEN <<>> ELSE refs

resolveMemberExpressionsWithDirectAssignmentMatch(h, root) ==
    LET refsOf(n) ==
            findReplaceablePropertyReferences(h, root, h[h[n].kids[1]].decl,
                                              getPropertyName(h, n), n)
        assigned(n) ==
            /\ h[h[n].kids[1]].decl # 0
            /\ parentNode(h, root, n) # 0
            /\ h[parentNode(h, root, n)].type = "AssignmentExpression"
            /\ parentKey(h, root, n) = 1
            /\ h[h[parentNode(h, root, n)].kids[2]].type = "Literal"
            /\ getPropertyName(h, n) # JsNull
            /\ Len(refsOf(n)) > 0
        ns == SelectSeq(typeMap(h, root, "MemberExpression"), assigned)
    IN  [k \in 1..Len(ns) |->
            MatchOf(ns[k], h[parentNode(h, root, ns[k])].kids[2], refsOf(ns[k]))]

resolveMemberExpressionsWithDirectAssignmentTransform(h, root, m) ==
    LET inMember(ref) ==
            /\ parentNode(h, root, ref) # 0
            /\ h[parentNode(h, root, ref)].type = "MemberExpression"
        refs == SelectSeq(m.references, inMember)
    IN  [heap  |-> h,
         edits |-> [i \in 1..Len(refs) |->
                       Edit(parentNode(h, root, refs[i]), m.replacement)]]

LOGICAL_OPERATORS == {"&&", "||"}

TRUTHY_NODE_TYPES ==
    {"ArrayExpression", "ObjectExpression", "FunctionExpression",
     "ArrowFunctionExpression"}

\* node.regex of a Literal
IsRegex(raw) == raw = "/a/"

\* "true", "false", or "null" when the truthiness is not known
isNodeTruthy(h, node) ==
    IF \/ h[node].type \in TRUTHY_NODE_TYPES
       \/ h[node].type = "Literal" /\ IsRegex(h[node].name)
    THEN "true"
    ELSE IF h[node].type = "Literal"
    THEN IF ToBoolean(LiteralValue(h[node].name)) THEN "true" ELSE "false"
    ELSE "null"

\* not the code: for && a truthy right operand is kept, a falsy one dropped
getSimplifiedLogicalExpressionSwapped(h, logicalExpr) ==
    LET left     == h[logicalExpr].kids[1]
        right    == h[logicalExpr].kids[2]
        operator == h[logicalExpr].name
    IN  IF isNodeTruthy(h, left) # "null" /\ operator = "&&"
        THEN IF isNodeTruthy(h, left) = "true" THEN right ELSE left
        ELSE IF isNodeTruthy(h, left) # "null" /\ operator = "||"
        THEN IF isNodeTruthy(h, left) = "true" THEN left ELSE right
        ELSE IF isNodeTruthy(h, right) # "null" /\ operator = "&&"
        THEN IF isNodeTruthy(h, right) = "true" THEN right ELSE left
        ELSE IF isNodeTruthy(h, right) # "null" /\ operator = "||"
        THEN IF isNodeTruthy(h, right) = "true" THEN right ELSE left
        ELSE 0

\* the operand that takes the expression's place, 0 for no simplification
getSimplifiedLogicalExpression(h, logicalExpr) ==
    LET left     == h[logicalExpr].kids[1]
        right    == h[logicalExpr].kids[2]
        operator == h[logicalExpr].name
    IN  IF isNodeTruthy(h, left) # "null" /\ operator = "&&"
        THEN IF isNodeTruthy(h, left) = "true" THEN right ELSE left
        ELSE IF isNodeTruthy(h, left) # "null" /\ operator = "||"
        THEN IF isNodeTruthy(h, left) = "true" THEN left ELSE right
        ELSE IF isNodeTruthy(h, right) # "null" /\ operator = "&&"
        THEN IF isNodeTruthy(h, right) = "true" THEN left ELSE right
        ELSE IF isNodeTruthy(h, right) # "null" /\ operator = "||"
        THEN IF isNodeTruthy(h, right) = "true" THEN right ELSE left
        ELSE 0

resolveRedundantLogicalExpressionsMatch(h, root) ==
    LET redundant(n) ==
            /\ h[n].kids[1] # 0
            /\ h[h[n].kids[1]].type = "LogicalExpression"
            /\ h[h[n].kids[1]].name \in LOGICAL_OPERATORS
            /\ getSimplifiedLogicalExpression(h, h[n].kids[1]) # 0
        ns == SelectSeq(typeMap(h, root, "IfStatement"), redundant)
    IN  [k \in 1..Len(ns) |-> MatchOf(ns[k], 0, <<>>)]

resolveRedundantLogicalExpressionsTransform(h, root, m) ==
    LET simplifiedExpr == getSimplifiedLogicalExpression(h, h[m.node].kids[1])
    IN  [heap  |-> h,
         edits |-> IF simplifiedExpr # 0
                   THEN <<Edit(h[m.node].kids[1], simplifiedExpr)>>
                   ELSE <<>>]

(***************************************************************************)
(* rearrangeSwitches.  The children of a SwitchStatement are its          *)
(* discriminant, then its cases; those of a SwitchCase are its test (0    *)
(* for default), then the statements of its consequent.                   *)
(***************************************************************************)
MAX_REPETITION == 50

\* node.value: the value of a literal, undefined for every other node
ValueOf(h, n) ==
    IF n # 0 /\ h[n].type = "Literal" THEN LiteralValue(h[n].name)
    ELSE JsUndefined

\* switchNode.discriminant.declNode.parentNode.init
SwitchInit(h, root, switchNode) ==
    InitOfDeclaration(h, root, h[h[switchNode].kids[1]].decl)

rearrangeSwitchesMatch(h, root) ==
    LET literalInit(n) ==
            /\ h[h[n].kids[1]].type = "Identifier"
            /\ SwitchInit(h, root, n) # 0
            /\ h[SwitchInit(h, root, n)].type = "Literal"
        ns == SelectSeq(typeMap(h, root, "SwitchStatement"), literalInit)
    IN  [k \in 1..Len(ns) |-> MatchOf(ns[k], 0, <<>>)]

\* the first case whose test has the value, or that has no test; 0 for none
CurrentCase(h, switchNode, val) ==
    LET cases == Tail(h[switchNode].kids)
        hits  == {i \in DOMAIN cases :
                     \/ h[cases[i]].kids[1] = 0
                     \/ ValueOf(h, h[cases[i]].kids[1]) = val}
    IN  IF hits = {} THEN 0
        ELSE cases[CHOOSE i \in hits : \A j \in hits : i <= j]

\* not the code: the assignments to the discriminant are left out as well
CaseStatementsWithoutAssignments(h, currentCase) ==
    SelectSeq(Tail(h[currentCase].kids),
              LAMBDA c : /\ h[c].type # "BreakStatement"
                         /\ \A k \in Range(h[c].kids) :
                               h[k].type # "AssignmentExpression")

\* the statements of the case's consequent, but for the break statements
CaseStatements(h, currentCase) ==
    SelectSeq(Tail(h[currentCase].kids), LAMBDA c : h[c].type # "BreakStatement")

assignments2Next(h, root, switchNode, currentCase) ==
    {d \in UNION {NodesUnder(h, c) : c \in Range(Tail(h[currentCase].kids))} :
        /\ h[d].type = "Identifier"
        /\ h[d].decl = h[h[switchNode].kids[1]].decl
        /\ \E p \in {parentNode(h, root, d)} :
              /\ h[p].type = "AssignmentExpression"
              /\ h[p].kids[1] = d}

\* the value the one assignment gives the discriminant, undefined when
\* there is none or more than one
NextValue(h, root, switchNode, currentCase) ==
    LET found == assignments2Next(h, root, switchNode, currentCase)
    IN  IF Cardinality(found) = 1
        THEN ValueOf(h, h[parentNode(h, root, CHOOSE d \in found : TRUE)].kids[2])
        ELSE JsUndefined

\* not the code: the loop goes on whatever the count
TraceContinuesUnbounded == currentVal # JsUndefined

\* the condition of the while loop
TraceContinues == currentVal # JsUndefined /\ counter < MAX_REPETITION

RELEVANT_PARENTS ==
    {"VariableDeclarator", "AssignmentExpression", "FunctionDeclaration",
     "ClassDeclaration"}

removeDeadNodesMatch(h, root) ==
    LET dead(n) ==
            \E parent \in {parentNode(h, root, n)} :
                /\ h[parent].type \in RELEVANT_PARENTS
                /\ h[n].decl = 0 \/ Len(references(h, root, h[n].decl)) = 0
                /\ Len(references(h, root, n)) = 0
                /\ \E grand \in {parentNode(h, root, parent)} :
                      grand = 0 \/ h[grand].type # "Program"
        ns == SelectSeq(typeMap(h, root, "Identifier"), dead)
    IN  [k \in 1..Len(ns) |-> MatchOf(ns[k], 0, <<>>)]

removeDeadNodesTransform(h, root, m) ==
    LET parent == parentNode(h, root, m.node)
        grand  == parentNode(h, root, parent)
        nodeToRemove ==
            IF grand # 0 /\ h[grand].type = "ExpressionStatement"
            THEN grand ELSE parent
    IN  [heap |-> h, edits |-> <<Edit(nodeToRemove, Deleted)>>]

(***************************************************************************)
(* unwrapSimpleOperations.  The children of a function are its id, its    *)
(* params, then its body, a BlockStatement.                                *)
(***************************************************************************)
BINARY_OPERATORS ==
    {"+", "-", "*", "/", "%", "&", "|", "&&", "||", "**", "^", "<=", ">=", "<",
     ">", "==", "===", "!=", "!==", "<<", ">>", ">>>", "in", "instanceof", "??"}

UNARY_OPERATORS == {"!", "~", "-", "+", "typeof", "void", "delete", "--", "++"}

BINARY_EXPRESSION_TYPES == {"LogicalExpression", "BinaryExpression"}

UNARY_EXPRESSION_TYPES == {"UnaryExpression", "UpdateExpression"}

\* the param identifiers of the function node f
ParamsOf(h, f) == SubSeq(h[f].kids, 2, 1 + Len(h[f].params))

\* declNode?.parentKey === 'params'
isParam(h, root, d) ==
    /\ d # 0
    /\ \E f \in {parentNode(h, root, d)} :
          /\ f # 0
          /\ h[f].type \in FUNCTION_TYPES
          /\ d \in Range(ParamsOf(h, f))

\* the operation is all that the one statement of a block returns
isOnlyReturned(h, root, n) ==
    \E ret \in {parentNode(h, root, n)} :
        /\ ret # 0
        /\ h[ret].type = "ReturnStatement"
        /\ \E block \in {parentNode(h, root, ret)} :
              /\ block # 0
              /\ h[block].type = "BlockStatement"
              /\ Len(h[block].kids) = 1

isBinaryOrLogicalWrapper(h, root, n) ==
    /\ h[n].type \in BINARY_EXPRESSION_TYPES
    /\ h[n].name \in BINARY_OPERATORS
    /\ isOnlyReturned(h, root, n)
    /\ isParam(h, root, h[h[n].kids[1]].decl)
    /\ isParam(h, root, h[h[n].kids[2]].decl)

isUnaryOrUpdateWrapper(h, root, n) ==
    /\ h[n].type \in UNARY_EXPRESSION_TYPES
    /\ h[n].name \in UNARY_OPERATORS
    /\ isOnlyReturned(h, root, n)
    /\ isParam(h, root, h[h[n].kids[1]].decl)

createBinaryOrLogicalExpression(h, operationNode, args) ==
    Node(h[operationNode].type, h[operationNode].name, <<>>, <<args[1], args[2]>>, 0)

createUnaryOrUpdateExpression(h, operationNode, args) ==
    Node(h[operationNode].type, h[operationNode].name, <<>>, <<args[1]>>, 0)

unwrapSimpleOperationsMatch(h, root) ==
    LET wrapper(n) ==
            isBinaryOrLogicalWrapper(h, root, n) \/ isUnaryOrUpdateWrapper(h, root, n)
        ns == SelectSeq(typeMap(h, root, "BinaryExpression")
                            \o typeMap(h, root, "LogicalExpression")
                            \o typeMap(h, root, "UnaryExpression")
                            \o typeMap(h, root, "UpdateExpression"), wrapper)
    IN  [k \in 1..Len(ns) |-> MatchOf(ns[k], 0, <<>>)]

\* n.scope.block: the function whose body returns the operation
ScopeBlock(h, root, n) ==
    CHOOSE f \in {parentNode(h, root, block) :
                     block \in {parentNode(h, root, ret) :
                                   ret \in {parentNode(h, root, n)}}} : TRUE

unwrapSimpleOperationsFrom(h, root, n, block) ==
    LET id    == IF h[block].name = "" THEN 0 ELSE h[block].kids[1]
        replaced(ref) ==
            \E callExpression \in {parentNode(h, root, ref)} :
                /\ h[callExpression].type = "CallExpression"
                /\ \/ /\ h[n].type \in BINARY_EXPRESSION_TYPES
                      /\ Len(h[callExpression].kids) = 3
                   \/ /\ h[n].type \notin BINARY_EXPRESSION_TYPES
                      /\ h[n].type \in UNARY_EXPRESSION_TYPES
                      /\ Len(h[callExpression].kids) = 2
        refs  == IF id = 0 THEN <<>> ELSE SelectSeq(references(h, root, id), replaced)
        made(ref) ==
            LET args == Tail(h[parentNode(h, root, ref)].kids)
            IN  IF h[n].type \in BINARY_EXPRESSION_TYPES
                THEN createBinaryOrLogicalExpression(h, n, args)
                ELSE createUnaryOrUpdateExpression(h, n, args)
    IN  [heap  |-> h \o [i \in 1..Len(refs) |-> made(refs[i])],
         edits |-> [i \in 1..Len(refs) |->
                       Edit(parentNode(h, root, refs[i]), Len(h) + i)]]

unwrapSimpleOperationsTransform(h, root, m) ==
    CHOOSE made \in {unwrapSimpleOperationsFrom(h, root, m.node, block) :
                        block \in {ScopeBlock(h, root, m.node)}} : TRUE

(***************************************************************************)
(* replaceFunctionShellsWithWrappedValue                                   *)
(***************************************************************************)
RETURNABLE_TYPES == {"Literal", "Identifier"}

\* node.body.body: the statements of the function's block
FunctionBody(h, node) ==
    LET ks == h[node].kids
    IN  IF Len(ks) > 0 /\ h[ks[Len(ks)]].type = "BlockStatement"
        THEN h[ks[Len(ks)]].kids ELSE <<>>

replaceFunctionShellsWithWrappedValueMatch(h, root) ==
    LET shell(node) ==
            /\ Len(FunctionBody(h, node)) > 0
            /\ \E first \in {FunctionBody(h, node)[1]} :
                  /\ h[first].type = "ReturnStatement"
                  /\ Len(h[first].kids) = 1
                  /\ h[first].kids[1] # 0
                  /\ h[h[first].kids[1]].type \in RETURNABLE_TYPES
        ns == SelectSeq(typeMap(h, root, "FunctionDeclaration"), shell)
    IN  [k \in 1..Len(ns) |-> MatchOf(ns[k], 0, <<>>)]

replaceFunctionShellsWithWrappedValueTransform(h, root, m) ==
    LET replacementNode == h[FunctionBody(h, m.node)[1]].kids[1]
        called(ref) ==
            \E call \in {parentNode(h, root, ref)} :
                /\ h[call].type = "CallExpression"
                /\ h[call].kids[1] = ref
        refs == SelectSeq(references(h, root, h[m.node].kids[1]), called)
    IN  [heap  |-> h,
         edits |-> [i \in 1..Len(refs) |->
                       Edit(parentNode(h, root, refs[i]), replacementNode)]]

(***************************************************************************)
(* unwrapIIFEs.  The child of a CallExpression with no arguments is its   *)
(* callee; the last child of a function is its body.                       *)
(***************************************************************************)
IIFE_FUNCTION_TYPES == {"ArrowFunctionExpression", "FunctionExpression"}

\* n.callee.body
CalleeBody(h, n) ==
    LET ks == h[h[n].kids[1]].kids
    IN  IF Len(ks) = 0 THEN 0 ELSE ks[Len(ks)]

\* the nodes that have a body, and those whose body is an array
BodyHolders ==
    {"Program", "BlockStatement"} \cup FUNCTION_TYPES \cup LOOP_STATEMENT_TYPES

BodyArrayHolders == {"Program", "BlockStatement"}

\* body.body?.[0]?.argument: the first statement of the block returns or
\* throws a value
FirstArgument(h, block) ==
    IF /\ Len(h[block].kids) > 0
       /\ h[h[block].kids[1]].type \in {"ReturnStatement", "ThrowStatement"}
       /\ Len(h[h[block].kids[1]].kids) > 0
    THEN h[h[block].kids[1]].kids[1] ELSE 0

\* the while loop: up from the call to the first node that has a body
RECURSIVE ClimbToBody(_, _, _, _)
ClimbToBody(h, root, targetNode, targetChild) ==
    IF targetNode = 0 \/ h[targetNode].type \in BodyHolders
    THEN [skip |-> FALSE, targetNode |-> targetNode, targetChild |-> targetChild]
    ELSE IF \/ parentKeyName(h, root, targetNode) = "init"
            \/ h[targetNode].type = "AssignmentExpression"
         THEN [skip |-> TRUE, targetNode |-> 0, targetChild |-> 0]
         ELSE ClimbToBody(h, root, parentNode(h, root, targetNode), targetNode)

\* the target, and the replacement: a node of the tree, or the one made
computeUnwrappingNodes(h, root, n) ==
    LET body == CalleeBody(h, n)
        same(t, r) == [skip |-> FALSE, targetNode |-> t, replacementNode |-> r,
                       made |-> <<>>]
    IN  IF h[body].type # "BlockStatement" THEN same(n, body)
        ELSE IF FirstArgument(h, body) # 0 THEN same(n, FirstArgument(h, body))
        ELSE LET up == ClimbToBody(h, root, n, body)
             IN  IF up.skip
                 THEN [skip |-> TRUE, targetNode |-> 0, replacementNode |-> 0,
                       made |-> <<>>]
                 ELSE IF up.targetNode = 0
                         \/ h[up.targetNode].type \notin BodyArrayHolders
                      THEN same(n, body)
                      ELSE [skip |-> FALSE, targetNode |-> up.targetNode,
                            replacementNode |-> 0,
                            made |-> <<[h[up.targetNode] EXCEPT !.kids =
                                SelectSeq(h[up.targetNode].kids,
                                          LAMBDA t : t # up.targetChild)
                                    \o h[body].kids]>>]

isUnwrappableIIFE(h, root, n) ==
    /\ Len(h[n].kids) = 1
    /\ h[h[n].kids[1]].type \in IIFE_FUNCTION_TYPES
    /\ h[h[n].kids[1]].name = ""
    /\ CalleeBody(h, n) # 0
    /\ \/ /\ \/ h[CalleeBody(h, n)].type # "BlockStatement"
              \/ /\ Len(h[CalleeBody(h, n)].kids) = 1
                 /\ h[h[CalleeBody(h, n)].kids[1]].type = "ReturnStatement"
          /\ parentKeyName(h, root, n) = "init"
       \/ parentKeyName(h, root, n) = "ExpressionStatement"
       \/ /\ parentKeyName(h, root, n) = "argument"
          /\ h[parentNode(h, root, n)].type = "UnaryExpression"

unwrapIIFEsMatch(h, root) ==
    LET iife(n) ==
            /\ isUnwrappableIIFE(h, root, n)
            /\ ~computeUnwrappingNodes(h, root, n).skip
        ns == SelectSeq(typeMap(h, root, "CallExpression"), iife)
    IN  [k \in 1..Len(ns) |-> MatchOf(ns[k], 0, <<>>)]

unwrapIIFEsTransform(h, root, m) ==
    LET unwrappingNodes == computeUnwrappingNodes(h, root, m.node)
    IN  IF unwrappingNodes.skip THEN NoChange(h)
        ELSE [heap  |-> h \o unwrappingNodes.made,
              edits |-> <<Edit(unwrappingNodes.targetNode,
                               IF unwrappingNodes.made = <<>>
                               THEN unwrappingNodes.replacementNode
                               ELSE Len(h) + 1)>>]

(***************************************************************************)
(* simplifyCalls.  The children of a CallExpression are its callee, then  *)
(* its arguments; those of an ArrayExpression are its elements.            *)
(***************************************************************************)
CALL_APPLY_METHODS == {"apply", "call"}

ALLOWED_CONTEXT_VARIABLE_TYPES == {"ThisExpression", "Literal"}

\* n.callee.property?.name || n.callee.property?.value
CalleePropertyName(h, n) ==
    LET callee == h[n].kids[1]
    IN  IF Len(h[callee].kids) = 2 THEN h[h[callee].kids[2]].name
        ELSE h[callee].name

extractSimplifiedArguments(h, n, methodName) ==
    IF methodName = "apply"
    THEN IF Len(h[n].kids) >= 3 /\ h[h[n].kids[3]].type = "ArrayExpression"
         THEN h[h[n].kids[3]].kids
         ELSE <<>>
    ELSE SubSeq(h[n].kids, 3, Len(h[n].kids))

simplifyCallsMatch(h, root) ==
    LET simple(n) ==
            /\ Len(h[n].kids) >= 2
            /\ h[h[n].kids[2]].type \in ALLOWED_CONTEXT_VARIABLE_TYPES
            /\ ~(h[h[n].kids[2]].type = "Literal" /\ h[h[n].kids[2]].name # "null")
            /\ h[h[n].kids[1]].type = "MemberExpression"
            /\ CalleePropertyName(h, n) \in CALL_APPLY_METHODS
            /\ \E object \in {h[h[n].kids[1]].kids[1]} :
                  /\ h[object].name # "Function"
                  /\ h[object].type \notin FUNCTION_TYPES \cup {"ArrowFunctionExpression"}
        ns == SelectSeq(typeMap(h, root, "CallExpression"), simple)
    IN  [k \in 1..Len(ns) |-> MatchOf(ns[k], 0, <<>>)]

simplifyCallsTransform(h, root, m) ==
    LET n == m.node
        simplifiedArgs == extractSimplifiedArguments(h, n, CalleePropertyName(h, n))
        simplifiedCall ==
            Parent("CallExpression", <<h[h[n].kids[1]].kids[1]>> \o simplifiedArgs)
    IN  [heap  |-> Append(h, simplifiedCall),
         edits |-> <<Edit(n, Len(h) + 1)>>]

(***************************************************************************)
(* resolveMemberExpressionReferencesToArrayIndex.  A hole of an array is  *)
(* the element 0.  The numbers of the model are integers, so              *)
(* Math.floor(value) is value.                                             *)
(***************************************************************************)
MIN_ARRAY_LENGTH == 20

isValidArrayIndex(h, memberExpr, arrayLength) ==
    /\ Len(h[memberExpr].kids) = 2
    /\ h[h[memberExpr].kids[2]].type = "Literal"
    /\ \E value \in {LiteralValue(h[h[memberExpr].kids[2]].name)} :
          /\ value.kind = "number"
          /\ value.num >= 0
          /\ value.num < arrayLength

\* not the code: the target of an assignment is resolved as well
isResolvableReferenceWritten(h, root, ref, arrayLength) ==
    /\ h[ref].type = "MemberExpression"
    /\ isValidArrayIndex(h, ref, arrayLength)

isResolvableReference(h, root, ref, arrayLength) ==
    /\ h[ref].type = "MemberExpression"
    /\ ~(/\ h[parentNode(h, root, ref)].type = "AssignmentExpression"
         /\ parentKey(h, root, ref) = 1)
    /\ isValidArrayIndex(h, ref, arrayLength)

resolveMemberExpressionReferencesToArrayIndexMatch(h, root) ==
    LET array(n) ==
            /\ Len(h[n].kids) = 2
            /\ h[n].kids[2] # 0
            /\ h[h[n].kids[2]].type = "ArrayExpression"
            /\ Len(h[h[n].kids[2]].kids) > MIN_ARRAY_LENGTH
            /\ Len(references(h, root, h[n].kids[1])) > 0
        ns == SelectSeq(typeMap(h, root, "VariableDeclarator"), array)
    IN  [k \in 1..Len(ns) |-> MatchOf(ns[k], 0, <<>>)]

resolveMemberExpressionReferencesToArrayIndexTransform(h, root, m) ==
    LET arrayElements == h[h[m.node].kids[2]].kids
        arrayLength   == Len(arrayElements)
        refs          == references(h, root, h[m.node].kids[1])
        memberExpressions == [i \in DOMAIN refs |-> parentNode(h, root, refs[i])]
        arrayElement(memberExpr) ==
            arrayElements[LiteralValue(h[h[memberExpr].kids[2]].name).num + 1]
        resolved(memberExpr) ==
            /\ isResolvableReference(h, root, memberExpr, arrayLength)
            /\ arrayElement(memberExpr) # 0
        exprs == SelectSeq(memberExpressions, resolved)
    IN  [heap  |-> h,
         edits |-> [i \in DOMAIN exprs |-> Edit(exprs[i], arrayElement(exprs[i]))]]

SafeRules ==
    {"simplifyIfStatements", "unwrapFunctionShells", "separateChainedDeclarators",
     "replaceIdentifierWithFixedAssignedValue", "resolveProxyReferences",
     "resolveMemberExpressionsWithDirectAssignment", "removeDeadNodes",
     "resolveProxyVariables", "resolveDeterministicIfStatements",
     "resolveRedundantLogicalExpressions", "rearrangeSwitches",
     "unwrapSimpleOperations", "replaceFunctionShellsWithWrappedValue",
     "unwrapIIFEs", "simplifyCalls",
     "resolveMemberExpressionReferencesToArrayIndex"}

SafeRuleMatch(rule, h, root) ==
    CASE rule = "simplifyIfStatements" -> simplifyIfStatementsMatch(h, root)
      [] rule = "unwrapFunctionShells" -> unwrapFunctionShellsMatch(h, root)
      [] rule = "separateChainedDeclarators" ->
             separateChainedDeclaratorsMatch(h, root)
      [] rule = "replaceIdentifierWithFixedAssignedValue" ->
             replaceIdentifierWithFixedAssignedValueMatch(h, root)
      [] rule = "resolveProxyReferences" -> resolveProxyReferencesMatch(h, root)
      [] rule = "removeDeadNodes" -> removeDeadNodesMatch(h, root)
      [] rule = "resolveProxyVariables" -> resolveProxyVariablesMatch(h, root)
      [] rule = "resolveDeterministicIfStatements" ->
             resolveDeterministicIfStatementsMatch(h, root)
      [] rule = "resolveRedundantLogicalExpressions" ->
             resolveRedundantLogicalExpressionsMatch(h, root)
      [] rule = "rearrangeSwitches" -> rearrangeSwitchesMatch(h, root)
      [] rule = "unwrapSimpleOperations" -> unwrapSimpleOperationsMatch(h, root)
      [] rule = "unwrapIIFEs" -> unwrapIIFEsMatch(h, root)
      [] rule = "simplifyCalls" -> simplifyCallsMatch(h, root)
      [] rule = "resolveMemberExpressionReferencesToArrayIndex" ->
             resolveMemberExpressionReferencesToArrayIndexMatch(h, root)
      [] rule = "replaceFunctionShellsWithWrappedValue" ->
             replaceFunctionShellsWithWrappedValueMatch(h, root)
      [] OTHER -> resolveMemberExpressionsWithDirectAssignmentMatch(h, root)

SafeRuleTransform(rule, h, root, m) ==
    CASE rule = "simplifyIfStatements" -> simplifyIfStatementsTransform(h, root, m)
      [] rule = "unwrapFunctionShells" -> unwrapFunctionShellsTransform(h, root, m)
      [] rule = "separateChainedDeclarators" ->
             separateChainedDeclaratorsTransform(h, root, m)
      [] rule = "replaceIdentifierWithFixedAssignedValue" ->
             replaceIdentifierWithFixedAssignedValueTransform(h, root, m)
      [] rule = "resolveProxyReferences" ->
             resolveProxyReferencesTransform(h, root, m)
      [] rule = "removeDeadNodes" -> removeDeadNodesTransform(h, root, m)
      [] rule = "resolveProxyVariables" ->
             resolveProxyVariablesTransform(h, root, m)
      [] rule = "resolveDeterministicIfStatements" ->
             resolveDeterministicIfStatementsTransform(h, root, m)
      [] rule = "resolveRedundantLogicalExpressions" ->
             resolveRedundantLogicalExpressionsTransform(h, root, m)
      [] rule = "unwrapSimpleOperations" ->
             unwrapSimpleOperationsTransform(h, root, m)
      [] rule = "unwrapIIFEs" -> unwrapIIFEsTransform(h, root, m)
      [] rule = "simplifyCalls" -> simplifyCallsTransform(h, root, m)
      [] rule = "resolveMemberExpressionReferencesToArrayIndex" ->
             resolveMemberExpressionReferencesToArrayIndexTransform(h, root, m)
      [] rule = "replaceFunctionShellsWithWrappedValue" ->
             replaceFunctionShellsWithWrappedValueTransform(h, root, m)
      [] OTHER -> resolveMemberExpressionsWithDirectAssignmentTransform(h, root, m)

(***************************************************************************)
(* One rule repeated over one tree: match, transform each match, commit,  *)
(* and match again, until match returns nothing.                           *)
(***************************************************************************)
Programs ==
    {IfProgram(c, a) : c \in BranchKinds, a \in BranchKinds \cup {"null"}}
    \cup {ShellProgram(on, inn, op, ip, prop) :
             on \in BOOLEAN, inn \in BOOLEAN, op \in {<<>>, <<"a">>},
             ip \in {<<>>, <<"b">>}, prop \in {"apply", "call"}}
    \cup {DeclProgram(n, pt) : n \in 1..MaxDeclarators,
             pt \in {"Program", "IfStatement", "ForStatement"}}
    \cup {RefProgram(it, r) : it \in {"Literal", "Identifier"}, r \in 0..MaxRefs}
    \cup {AssignProgram(rt, r) : rt \in {"Literal", "Identifier"}, r \in 0..MaxRefs}
    \cup {NestedProgram(f, u) : f \in {"var", "function", "param"}, u \in BOOLEAN}
    \cup {ProxyProgram(tw, pw, r) : tw \in BOOLEAN, pw \in BOOLEAN, r \in 0..MaxRefs}
    \cup {DeterministicIfProgram(op, raw, ha) :
             op \in UnaryOperators \cup {""}, raw \in LiteralRaws, ha \in BOOLEAN}
    \cup {LogicalProgram(op, l, r) :
             op \in LOGICAL_OPERATORS \cup {"??"}, l \in OperandKinds,
             r \in OperandKinds}
    \cup {SwitchProgram(init, n0, n1) :
             init \in {"0", "1", "''"}, n0 \in {"none", "0", "1", "''"},
             n1 \in {"none", "0", "1", "''"}}
    \cup {SwitchDefaultProgram(init, df) : init \in {"0", "1"}, df \in BOOLEAN}
    \cup {CircularProgram(r) : r \in 0..MaxRefs}
    \cup {ChainsProgram(n1, n2) : n1 \in 1..2, n2 \in 1..2}
    \cup {ArrayProgram(len, pr, w) :
             len \in {MIN_ARRAY_LENGTH, MIN_ARRAY_LENGTH + 1},
             pr \in ArrayProperties, w \in BOOLEAN}
    \cup {CallProgram(o, m, c, a) : o \in CallObjects, m \in {"call", "apply"},
             c \in CallContexts, a \in CallArguments}
    \cup {IIFEProgram(f, b) : f \in IIFEForms, b \in {"statements", "return"}}
    \cup {KeyProgram(c, r) : c \in BOOLEAN, r \in 0..MaxRefs}
    \cup {ValueShellProgram(r, c) : r \in ReturnedKinds, c \in BOOLEAN}
    \cup {OperationProgram(body, n) : body \in OperationBodies, n \in 1..3}
    \cup {AccessProgram(o, of, rf, first) :
             o \in {"none", "assign", "update"}, of \in AccessForms,
             rf \in AccessForms, first \in BOOLEAN}

\* the replacement the last markNode call on node k staged, k itself if none
LastMarked(edits, k) ==
    LET calls == {i \in DOMAIN edits : edits[i].target = k}
    IN  IF calls = {} THEN k
        ELSE edits[CHOOSE i \in calls : \A j \in calls : j <= i].replacement

\* the nodes whose children are the elements of an array
ListParents ==
    {"Program", "BlockStatement", "VariableDeclaration"} \cup FUNCTION_TYPES

\* commit: every staged edit is applied, the buffer is cleared; a deleted
\* element of an array is spliced out
Committed(h, edits) ==
    [i \in DOMAIN h |->
        LET ks == [j \in DOMAIN h[i].kids |-> LastMarked(edits, h[i].kids[j])]
        IN  [h[i] EXCEPT !.kids = IF h[i].type \in ListParents
                                  THEN SelectSeq(ks, LAMBDA k : k # Deleted)
                                  ELSE ks]]

SafeStart ==
    /\ sPc = "idle"
    /\ \E rule \in SafeRules, program \in Programs :
          /\ sRule' = rule
          /\ heap' = program
    /\ sRoot' = 1
    /\ heapAtMatch' = <<>>
    /\ sMatches' = <<>>
    /\ si' = 1
    /\ sStaged' = <<>>
    /\ sPc' = "match"
    /\ UNCHANGED traceVars
    /\ UNCHANGED othersThanSafe

\* match runs on the tree as it stands; an empty answer ends the repetition
SafeMatch ==
    /\ sPc = "match"
    /\ LET matches == SafeRuleMatch(sRule, heap, sRoot)
       IN  /\ sMatches' = matches
           /\ sPc' = IF Len(matches) = 0 THEN "done" ELSE "transform"
    /\ heapAtMatch' = heap
    /\ si' = 1
    /\ UNCHANGED <<sRule, heap, sRoot, sStaged>>
    /\ UNCHANGED traceVars
    /\ UNCHANGED othersThanSafe

\* transform is called on the next match
SafeTransform ==
    /\ sPc = "transform"
    /\ si <= Len(sMatches)
    /\ sRule # "rearrangeSwitches"
    /\ LET made == SafeRuleTransform(sRule, heap, sRoot, sMatches[si])
       IN  /\ heap' = made.heap
           /\ sStaged' = sStaged \o made.edits
    /\ si' = si + 1
    /\ UNCHANGED <<sPc, sRule, sRoot, heapAtMatch, sMatches>>
    /\ UNCHANGED traceVars
    /\ UNCHANGED othersThanSafe

\* every match transformed: the staged edits take effect, match runs again
SafeCommit ==
    /\ sPc = "transform"
    /\ si > Len(sMatches)
    /\ heap' = Committed(heap, sStaged)
    /\ sRoot' = LastMarked(sStaged, sRoot)
    /\ sStaged' = <<>>
    /\ sPc' = "match"
    /\ UNCHANGED <<sRule, heapAtMatch, sMatches, si>>
    /\ UNCHANGED traceVars
    /\ UNCHANGED othersThanSafe

\* the tree of a repetition that has ended is let go
SafeDiscard ==
    /\ sPc = "done"
    /\ sPc' = "idle"
    /\ sRule' = "none"
    /\ heap' = <<>>
    /\ sRoot' = 0
    /\ heapAtMatch' = <<>>
    /\ sMatches' = <<>>
    /\ si' = 1
    /\ sStaged' = <<>>
    /\ UNCHANGED traceVars
    /\ UNCHANGED othersThanSafe

\* rearrangeSwitchesTransform is called on the next match: its locals are set
SwitchBegin ==
    /\ sPc = "transform"
    /\ si <= Len(sMatches)
    /\ sRule = "rearrangeSwitches"
    /\ ordered' = <<>>
    /\ currentVal' = ValueOf(heap, SwitchInit(heap, sRoot, sMatches[si].node))
    /\ counter' = 0
    /\ sPc' = "trace"
    /\ UNCHANGED <<sRule, heap, sRoot, heapAtMatch, sMatches, si, sStaged>>
    /\ UNCHANGED othersThanSafe

\* one turn of the while loop: the case of the current value is visited
SwitchTrace ==
    /\ sPc = "trace"
    /\ TraceContinues
    /\ CurrentCase(heap, sMatches[si].node, currentVal) # 0
    /\ \E currentCase \in {CurrentCase(heap, sMatches[si].node, currentVal)} :
          /\ ordered' = ordered \o CaseStatements(heap, currentCase)
          /\ currentVal' = NextValue(heap, sRoot, sMatches[si].node, currentCase)
    /\ counter' = counter + 1
    /\ UNCHANGED <<sPc, sRule, heap, sRoot, heapAtMatch, sMatches, si, sStaged>>
    /\ UNCHANGED othersThanSafe

\* the loop is left: the block of the collected statements is staged in
\* place of the switch, if any statement was collected
SwitchEnd ==
    /\ sPc = "trace"
    /\ ~TraceContinues \/ CurrentCase(heap, sMatches[si].node, currentVal) = 0
    /\ IF Len(ordered) > 0
       THEN /\ heap' = Append(heap, Parent("BlockStatement", ordered))
            /\ sStaged' = Append(sStaged, Edit(sMatches[si].node, Len(heap) + 1))
       ELSE UNCHANGED <<heap, sStaged>>
    /\ si' = si + 1
    /\ sPc' = "transform"
    /\ ordered' = <<>>
    /\ currentVal' = JsUndefined
    /\ counter' = 0
    /\ UNCHANGED <<sRule, sRoot, heapAtMatch, sMatches>>
    /\ UNCHANGED othersThanSafe

SafeInit ==
    /\ SafeIdle
    /\ CliIdle
    /\ DriverIdle
    /\ UnsafeIdle

SafeNext ==
    \/ SafeStart
    \/ SafeMatch
    \/ SafeTransform
    \/ SafeCommit
    \/ SafeDiscard
    \/ SwitchBegin
    \/ SwitchTrace
    \/ SwitchEnd

\* a repetition that has started is one loop on one thread: its next step,
\* when there is one, is taken
SpecSafe ==
    /\ SafeInit
    /\ [][SafeNext]_vars
    /\ WF_vars(SafeMatch)
    /\ WF_vars(SafeTransform)
    /\ WF_vars(SafeCommit)
    /\ WF_vars(SwitchBegin)
    /\ WF_vars(SwitchTrace)
    /\ WF_vars(SwitchEnd)

(***************************************************************************)
(* Properties of the rules over node objects.                              *)
(***************************************************************************)

\* C4: a transform never changes a node object that exists when it is
\* called, nor which node is the root: what it does to the tree is in the
\* edits it stages, and those reach the tree in the commit step only.
RulesNeverMutateExistingNodes ==
    [][sPc = "transform" /\ si <= Len(sMatches)
          => /\ Len(heap') >= Len(heap)
             /\ \A i \in DOMAIN heap : heap'[i] = heap[i]
             /\ sRoot' = sRoot]_vars

\* a shell has been unwrapped into a new node that carries the outer
\* function's id, and the edit waits for the commit
UnwrappedCopyStaged ==
    /\ sRule = "unwrapFunctionShells"
    /\ sPc = "transform"
    /\ si > Len(sMatches)
    /\ Len(sStaged) = 1
    /\ sStaged[1].replacement > Len(heapAtMatch)
    /\ heap[sStaged[1].replacement].name = "outer"
    /\ heap[sStaged[1].replacement].params = <<"a">>

\* C7 as stated: a repetition of match, transform and commit that has
\* started comes to its end, with match returning nothing.
RepetitionTerminates == (sPc = "match") ~> (sPc = "done")

AliasingRules ==
    {"replaceIdentifierWithFixedAssignedValue", "resolveProxyReferences",
     "resolveMemberExpressionsWithDirectAssignment"}

DeclarationTypes == {"VariableDeclarator", "FunctionDeclaration", "ClassDeclaration"}

RECURSIVE InFunction(_, _, _)
InFunction(h, root, n) ==
    LET p == parentNode(h, root, n)
    IN  IF p = 0 THEN FALSE
        ELSE h[p].type \in FUNCTION_TYPES \/ InFunction(h, root, p)

\* C13 as stated: dead-code removal never stages the deletion of a
\* declaration made at root scope, outside every function.
TopLevelDeclarationNeverRemoved ==
    sRule = "removeDeadNodes"
        => \A i \in DOMAIN sStaged :
              ~ /\ sStaged[i].replacement = Deleted
                /\ heap[sStaged[i].target].type \in DeclarationTypes
                /\ ~InFunction(heap, sRoot, sStaged[i].target)

\* the identifier a declaration declares, 0 when it is not given as a node
DeclaredIdentifier(h, t) ==
    LET d == IF h[t].type = "ExpressionStatement" THEN h[t].kids[1] ELSE t
    IN  IF Len(h[d].kids) > 0 /\ h[h[d].kids[1]].type = "Identifier"
        THEN h[d].kids[1] ELSE 0

\* C14 as stated: what dead-code removal stages for deletion is a
\* declaration, or the expression statement around it, whose declared
\* identifier has no reference.
OnlyUnreferencedDeclarationRemoved ==
    sRule = "removeDeadNodes"
        => \A i \in DOMAIN sStaged :
              /\ sStaged[i].replacement = Deleted
              /\ \A d \in {DeclaredIdentifier(heap, sStaged[i].target)} \ {0} :
                    Len(references(heap, sRoot, d)) = 0

\* the identifier declared by node d is written somewhere in the tree
Written(h, root, d) ==
    d # 0 /\ areReferencesModified(h, root, references(h, root, d))

ProxyRules == {"resolveProxyVariables", "resolveProxyReferences"}

\* C15 as stated: a use of a proxy variable b (var b = a) is replaced by
\* the identifier a only when neither a nor b is written in the script.
ProxyReplacedOnlyWhenUnwritten ==
    sRule \in ProxyRules
        => \A i \in DOMAIN sStaged :
              \A t \in {sStaged[i].target}, r \in {sStaged[i].replacement} \ {0} :
                  heap[t].type = "Identifier" /\ heap[r].type = "Identifier"
                      => /\ ~Written(heap, sRoot, heap[t].decl)
                         /\ ~Written(heap, sRoot, heap[r].decl)

\* whether the test of an if statement is truthy when the script runs
TestIsTruthy(h, test) ==
    IF h[test].type = "Literal"
    THEN ToBoolean(LiteralValue(h[test].name))
    ELSE ToBoolean(UnaryValue(h[test].name, LiteralValue(h[h[test].kids[1]].name)))

\* C16 as stated: an if statement whose test is a literal, or a unary
\* operator applied to a literal, is replaced by the branch the truthiness
\* of the test selects: the consequent when truthy, the alternate when
\* falsy, and it is deleted when that branch is absent.
DeterministicIfFollowsTruthiness ==
    sRule = "resolveDeterministicIfStatements"
        => \A i \in DOMAIN sStaged :
              \A n \in {sStaged[i].target} :
                  sStaged[i].replacement =
                      IF TestIsTruthy(heap, heap[n].kids[1])
                      THEN heap[n].kids[2] ELSE heap[n].kids[3]

\* the truthiness of an expression when the script runs, env giving the
\* truthiness of each identifier
RECURSIVE Truthiness(_, _, _)
Truthiness(h, n, env) ==
    CASE h[n].type = "Identifier" -> env[h[n].name]
      [] h[n].type = "Literal" -> ToBoolean(LiteralValue(h[n].name))
      [] h[n].type = "LogicalExpression" /\ h[n].name = "&&" ->
             Truthiness(h, h[n].kids[1], env) /\ Truthiness(h, h[n].kids[2], env)
      [] h[n].type = "LogicalExpression" /\ h[n].name = "||" ->
             Truthiness(h, h[n].kids[1], env) \/ Truthiness(h, h[n].kids[2], env)
      [] OTHER -> TRUE

ConstantOperandTypes ==
    {"Literal", "ArrayExpression", "ObjectExpression", "FunctionExpression",
     "ArrowFunctionExpression"}

\* C17: what resolveRedundantLogicalExpressions stages in place of the
\* logical expression of an if test is one of its two operands, the other
\* or the kept one being a literal, an array, an object, a function or a
\* regular expression, and it is truthy exactly when the expression is,
\* whatever the value of the operand that is not constant.
SimplificationKeepsTruthiness ==
    sRule = "resolveRedundantLogicalExpressions"
        => \A i \in DOMAIN sStaged :
              \A t \in {sStaged[i].target}, r \in {sStaged[i].replacement} :
                  /\ heap[t].type = "LogicalExpression"
                  /\ r \in Range(heap[t].kids)
                  /\ \E k \in Range(heap[t].kids) :
                        heap[k].type \in ConstantOperandTypes
                  /\ \A env \in [{"x", "y"} -> BOOLEAN] :
                        Truthiness(heap, r, env) = Truthiness(heap, t, env)

\* x && [] has been simplified to x, the operand whose value is not known
UnknownOperandKept ==
    /\ sRule = "resolveRedundantLogicalExpressions"
    /\ Len(sStaged) = 1
    /\ heap[sStaged[1].target].name = "&&"
    /\ heap[sStaged[1].replacement].type = "Identifier"
    /\ heap[heap[sStaged[1].target].kids[2]].type = "ArrayExpression"

\* var s = 0; switch (s) { case 0: a(); s = 1; break; case 1: b(); break; }
S5 == SwitchProgram("0", "1", "none")

TraceVisitsAtMostMaxRepetition ==
    [][sPc = "trace"
          => /\ counter <= MAX_REPETITION
             /\ sPc' = "trace" => /\ counter' = counter + 1
                                  /\ counter' <= MAX_REPETITION
             /\ counter = MAX_REPETITION => sPc' = "transform"]_vars

\* a cyclic chain (case 0 sets 1, case 1 sets 0) has been followed up to
\* the bound, and the statements of all the visits are collected
CyclicChainCutAtBound ==
    /\ sRule = "rearrangeSwitches"
    /\ heapAtMatch = SwitchProgram("0", "1", "0")
    /\ sPc = "trace"
    /\ counter = MAX_REPETITION
    /\ Len(ordered) = 2 * MAX_REPETITION

\* the cases of the switch whose test has the value
CasesWithTest(h, switchNode, val) ==
    {c \in Range(Tail(h[switchNode].kids)) :
        h[c].kids[1] # 0 /\ ValueOf(h, h[c].kids[1]) = val}

\* C21 as stated: at each step of the trace the case visited is one whose
\* test equals the current value of the discriminant whenever there is such
\* a case; the default case is visited only when no test equals the value,
\* wherever the default case stands among the cases.
DefaultOnlyWhenNoTestMatches ==
    [][(sPc = "trace" /\ counter' = counter + 1)
          => \A sw \in {sMatches[si].node} :
                CasesWithTest(heap, sw, currentVal) # {}
                    => \E c \in CasesWithTest(heap, sw, currentVal) :
                          ordered' = ordered \o CaseStatements(heap, c)]_vars

\* with the default case after the tested ones the trace visits the case
\* whose test equals the value
DefaultLastFollowsTest ==
    [][(sPc = "trace" /\ counter' = counter + 1
            /\ heapAtMatch # SwitchDefaultProgram("1", TRUE))
          => \A sw \in {sMatches[si].node} :
                CasesWithTest(heap, sw, currentVal) # {}
                    => \E c \in CasesWithTest(heap, sw, currentVal) :
                          ordered' = ordered \o CaseStatements(heap, c)]_vars

\* C22 as stated: for the circular proxies `var a = b; var b = a;` neither
\* proxy rule stages the replacement of a reference.
CircularProxiesLeftAlone ==
    (sRule \in ProxyRules /\ \E r \in 0..MaxRefs : heapAtMatch = CircularProgram(r))
        => sStaged = <<>>

\* a proxy whose initializer is a reference to the proxy itself is not
\* matched by resolveProxyReferences
SelfProxyLeftAlone ==
    sRule = "resolveProxyReferences"
        => \A i \in DOMAIN sMatches :
              heap[sMatches[i].replacement].decl # heap[sMatches[i].node].kids[1]

\* o.a or o['a'], o being the object the programs declare
AccessesProperty(h, m) ==
    /\ h[m].type = "MemberExpression"
    /\ h[h[m].kids[1]].decl = 4
    /\ \/ Len(h[m].kids) = 1 /\ h[m].name = "a"
       \/ Len(h[m].kids) = 2 /\ h[h[m].kids[2]] = Leaf("Literal", "'a'")

\* the access is the target of an assignment or the operand of an update
ModifiedAccess(h, root, m) ==
    \E p \in {parentNode(h, root, m)} :
        \/ h[p].type = "UpdateExpression"
        \/ h[p].type = "AssignmentExpression" /\ h[p].kids[1] = m

ArgumentFor(h, root, call, operand) ==
    LET d      == h[operand].decl
        params == ParamsOf(h, parentNode(h, root, d))
        at     == 1 + CHOOSE k \in DOMAIN params : params[k] = d
    IN  IF at \in DOMAIN h[call].kids THEN h[call].kids[at] ELSE 0

\* C24 as stated: the expression staged in place of a call of a wrapper of
\* a simple operation is the expression the wrapper returns, each parameter
\* replaced by the argument in the same position, so that the operands
\* stand in the order of the wrapper's body.
UnwrappedOperandsFollowBody ==
    sRule = "unwrapSimpleOperations"
        => \A i \in DOMAIN sStaged, k \in DOMAIN sMatches :
              \A n \in {sMatches[k].node} :
                  /\ heap[sStaged[i].replacement].type = heap[n].type
                  /\ heap[sStaged[i].replacement].name = heap[n].name
                  /\ heap[sStaged[i].replacement].kids =
                         [j \in DOMAIN heap[n].kids |->
                             ArgumentFor(heap, sRoot, sStaged[i].target, heap[n].kids[j])]

\* for the wrappers whose body takes every parameter once and in the order
\* of the parameter list, the operands staged are the arguments in order
OrderedBodyUnwrapped ==
    (sRule = "unwrapSimpleOperations"
        /\ \E n \in 1..3 : heapAtMatch \in {OperationProgram("a-b", n),
                                             OperationProgram("-a", n)})
        => \A i \in DOMAIN sStaged, k \in DOMAIN sMatches :
              \A n \in {sMatches[k].node} :
                  heap[sStaged[i].replacement].kids =
                      [j \in DOMAIN heap[n].kids |->
                          ArgumentFor(heap, sRoot, sStaged[i].target, heap[n].kids[j])]

\* C25 as stated: a call of a function shell is replaced by the identifier
\* the shell returns only when that identifier is declared outside the
\* shell, neither as its parameter nor in its body.
ShellIdentifierNamesOuterBinding ==
    sRule = "replaceFunctionShellsWithWrappedValue"
        => \A i \in DOMAIN sStaged, k \in DOMAIN sMatches :
              \A r \in {sStaged[i].replacement} :
                  heap[r].type = "Identifier"
                      => heap[r].decl \notin NodesUnder(heap, sMatches[k].node)

\* calls, and only calls, of a shell are replaced by the node it returns
OnlyCallsOfShellReplaced ==
    sRule = "replaceFunctionShellsWithWrappedValue"
        => \A i \in DOMAIN sStaged :
              /\ heap[sStaged[i].target].type = "CallExpression"
              /\ heap[heap[sStaged[i].target].kids[1]].decl = 3
              /\ sStaged[i].replacement = 7

\* the identifier is the key of a property of an object expression
IsPropertyKey(h, root, n) ==
    \E p \in {parentNode(h, root, n)} :
        /\ p # 0
        /\ h[p].type = "Property"
        /\ h[p].kids[1] = n
        /\ h[parentNode(h, root, p)].type = "ObjectExpression"

\* C26 as stated: replaceIdentifierWithFixedAssignedValue never stages the
\* replacement of an identifier that is the key of a property of an object
\* expression.
PropertyKeyNeverReplaced ==
    sRule = "replaceIdentifierWithFixedAssignedValue"
        => \A i \in DOMAIN sStaged : ~IsPropertyKey(heap, sRoot, sStaged[i].target)

\* a key that is a name, not computed, is not replaced, and the plain
\* references beside it are
NamedKeyKept ==
    (sRule = "replaceIdentifierWithFixedAssignedValue"
        /\ \E r \in 0..MaxRefs : heapAtMatch = KeyProgram(FALSE, r))
        => \A i \in DOMAIN sStaged :
              /\ sStaged[i].target > 10
              /\ sStaged[i].replacement = 5

\* the immediately invoked functions that stand as a statement and whose
\* body has more than one statement
StatementIIFEPrograms ==
    {IIFEProgram("plain", "statements"), IIFEProgram("unary", "statements")}

\* the statements of the body of the immediately invoked function
IIFEBody(h) == h[CHOOSE b \in NodesUnder(h, 3) : h[b].type = "BlockStatement"].kids

\* C27 as stated: an anonymous function invoked at once with no arguments,
\* standing as a statement and with a body of several statements, is
\* unwrapped: the enclosing block is staged to be replaced by one in which
\* the statements of the body stand where the statement stood, in order.
IIFEBodySplicedInPlace ==
    (sRule = "unwrapIIFEs" /\ heapAtMatch \in StatementIIFEPrograms)
        => /\ sPc # "done"
           /\ \A i \in DOMAIN sStaged :
                 /\ sStaged[i].target = 1
                 /\ heap[sStaged[i].replacement].type = "Program"
                 /\ heap[sStaged[i].replacement].kids =
                        <<2>> \o IIFEBody(heapAtMatch) \o <<4>>

\* what the rule does for `a(); !function () { b(); c(); }(); d();`: the
\* statements of the body are put after the last statement of the program
UnaryIIFEBodyAppended ==
    (sRule = "unwrapIIFEs" /\ heapAtMatch = IIFEProgram("unary", "statements"))
        => /\ sPc # "done"
           /\ \A i \in DOMAIN sStaged :
                 /\ sStaged[i].target = 1
                 /\ heap[sStaged[i].replacement].kids =
                        <<2, 4>> \o IIFEBody(heapAtMatch)

\* an immediately invoked function that only returns a value and
\* initializes a variable is replaced by the value
ReturningIIFEReplacedByValue ==
    (sRule = "unwrapIIFEs" /\ heapAtMatch = IIFEProgram("init", "return"))
        => /\ sPc # "done"
           /\ \A i \in DOMAIN sStaged : sStaged[i] = Edit(7, 11)

\* the call staged calls the object of the callee with the arguments given
DirectCallOf(h, n, r, args) ==
    /\ h[r].type = "CallExpression"
    /\ h[r].kids = <<h[h[n].kids[1]].kids[1]>> \o args

\* C28 as stated: `f.call(this, a, b)` and `f.apply(this, [a, b])` are
\* staged to become `f(a, b)`, the call of f with exactly the arguments
\* written; a call through apply is rewritten only when it has no second
\* argument or the second argument is an array literal.
CallsSimplifiedWithOriginalArguments ==
    sRule = "simplifyCalls"
        => \A i \in DOMAIN sStaged :
              \E n \in {sStaged[i].target}, r \in {sStaged[i].replacement} :
                  IF heap[heap[n].kids[1]].name = "call"
                  THEN DirectCallOf(heap, n, r, SubSeq(heap[n].kids, 3, Len(heap[n].kids)))
                  ELSE \/ /\ Len(heap[n].kids) = 2
                          /\ DirectCallOf(heap, n, r, <<>>)
                       \/ /\ Len(heap[n].kids) > 2
                          /\ heap[heap[n].kids[3]].type = "ArrayExpression"
                          /\ DirectCallOf(heap, n, r, heap[heap[n].kids[3]].kids)

\* the same, but for the calls through apply whose second argument is not
\* an array literal
ReadableCallsSimplified ==
    (sRule = "simplifyCalls"
        /\ \A o \in CallObjects, c \in CallContexts :
              heapAtMatch # CallProgram(o, "apply", c, "identifier")
              /\ heapAtMatch # CallProgram(o, "apply", c, "plain"))
        => \A i \in DOMAIN sStaged :
              \E n \in {sStaged[i].target}, r \in {sStaged[i].replacement} :
                  IF heap[heap[n].kids[1]].name = "call"
                  THEN DirectCallOf(heap, n, r, SubSeq(heap[n].kids, 3, Len(heap[n].kids)))
                  ELSE \/ /\ Len(heap[n].kids) = 2
                          /\ DirectCallOf(heap, n, r, <<>>)
                       \/ /\ Len(heap[n].kids) > 2
                          /\ heap[heap[n].kids[3]].type = "ArrayExpression"
                          /\ DirectCallOf(heap, n, r, heap[heap[n].kids[3]].kids)

\* the access is A[k], k a numeric literal that is an index of the array
\* initializer of A, and is not the target of an assignment; the element
\* of that index, 0 for any other node
ElementAccessed(h, root, t) ==
    IF /\ h[t].type = "MemberExpression"
       /\ Len(h[t].kids) = 2
       /\ h[h[t].kids[2]].type = "Literal"
       /\ h[h[t].kids[2]].name \in {"0", "1", "21"}
       /\ InitOfDeclaration(h, root, h[h[t].kids[1]].decl) # 0
       /\ \E init \in {InitOfDeclaration(h, root, h[h[t].kids[1]].decl)},
             k \in {IF h[h[t].kids[2]].name = "0" THEN 0
                    ELSE IF h[h[t].kids[2]].name = "1" THEN 1 ELSE 21} :
             /\ h[init].type = "ArrayExpression"
             /\ k < Len(h[init].kids)
       /\ \A p \in NodesUnder(h, root) :
             h[p].type = "AssignmentExpression" => h[p].kids[1] # t
    THEN LET init == InitOfDeclaration(h, root, h[h[t].kids[1]].decl)
             k    == IF h[h[t].kids[2]].name = "0" THEN 0
                     ELSE IF h[h[t].kids[2]].name = "1" THEN 1 ELSE 21
         IN  h[init].kids[k + 1]
    ELSE 0

RECURSIVE DeclaratorsInOrder(_, _)
DeclaratorsInOrder(h, i) ==
    IF i = 0 THEN <<>>
    ELSE IF h[i].type = "VariableDeclarator" THEN <<h[i].name>>
    ELSE LET RECURSIVE Over(_)
             Over(ks) == IF ks = <<>> THEN <<>>
                         ELSE DeclaratorsInOrder(h, Head(ks)) \o Over(Tail(ks))
         IN  Over(h[i].kids)

\* no declaration outside the head of a for statement has more than one
\* declarator
Separated(h, root) ==
    \A n \in NodesUnder(h, root) :
        (h[n].type = "VariableDeclaration"
            /\ h[parentNode(h, root, n)].type \notin FOR_STATEMENT_TYPES)
            => Len(h[n].kids) <= 1

\* the names of the declarators the program was given with: no node leaves
\* the heap, and no rule makes a declarator
DeclaratorsGiven(h) ==
    LET ds == SelectSeq(h, LAMBDA nd : nd.type = "VariableDeclarator")
    IN  [i \in DOMAIN ds |-> ds[i].name]

\* the programs with chained declarations
ChainedPrograms ==
    {DeclProgram(n, pt) : n \in 1..MaxDeclarators, pt \in {"Program", "IfStatement", "ForStatement"}}
    \cup {ChainsProgram(n1, n2) : n1 \in 1..2, n2 \in 1..2}

\* C30: separateChainedDeclarators, repeated with a commit after each pass,
\* comes to an end on a tree in which no declaration outside the head of a
\* for statement has more than one declarator, and in which the declarators
\* are those of the program given, each once and in the order given, also
\* when two chained declarations stand in the same body.
ChainsSeparatedInOrder ==
    (sRule = "separateChainedDeclarators" /\ sPc = "match" /\ heap \in ChainedPrograms)
        ~> (/\ sRule = "separateChainedDeclarators"
            /\ sPc = "done"
            /\ Separated(heap, sRoot)
            /\ DeclaratorsInOrder(heap, sRoot) = DeclaratorsGiven(heap))

\* `var a, b; var c, d;` has become four declarations of one declarator
TwoChainsSeparated ==
    /\ sRule = "separateChainedDeclarators"
    /\ sPc = "done"
    /\ Len(heap[sRoot].kids) = 4
    /\ Separated(heap, sRoot)
    /\ DeclaratorsInOrder(heap, sRoot) = <<"a", "b", "c", "d">>

MaxArgLen == 3

Digits == {"0", "1", "2", "3", "4", "5", "6", "7", "8", "9"}

ArgChars == {"0", "1", "-", "a", "."}

DigitValue(c) ==
    CASE c = "0" -> 0 [] c = "1" -> 1 [] c = "2" -> 2 [] c = "3" -> 3
      [] c = "4" -> 4 [] c = "5" -> 5 [] c = "6" -> 6 [] c = "7" -> 7
      [] c = "8" -> 8 [] OTHER -> 9

ArgValues == UNION {[1..n -> ArgChars] : n \in 0..MaxArgLen}

\* the number written by a sequence of digits
RECURSIVE DecimalValue(_)
DecimalValue(ds) ==
    IF Len(ds) = 0 THEN 0
    ELSE 10 * DecimalValue(SubSeq(ds, 1, Len(ds) - 1)) + DigitValue(ds[Len(ds)])

\* parseInt(value, 10): an optional sign, then the digits up to the first
\* character that is not one; NaN when there is no digit
parseInt(value) ==
    LET signed == Len(value) > 0 /\ value[1] \in {"-", "+"}
        rest   == IF signed THEN Tail(value) ELSE value
        n      == CHOOSE k \in 0..Len(rest) :
                      /\ \A i \in 1..k : rest[i] \in Digits
                      /\ k = Len(rest) \/ rest[k + 1] \notin Digits
        number == DecimalValue(SubSeq(rest, 1, n))
    IN  IF n = 0 THEN [nan |-> TRUE, n |-> 0]
        ELSE [nan |-> FALSE,
              n   |-> IF signed /\ value[1] = "-" THEN 0 - number ELSE number]

\* maxIterations of the options: false, null, or a number
NotSet == [kind |-> "false", n |-> 0]

InvalidValue == [kind |-> "null", n |-> 0]

createDefaultOptions(inputFilename) ==
    [inputFilename  |-> inputFilename,
     help           |-> FALSE,
     clean          |-> FALSE,
     quiet          |-> FALSE,
     verbose        |-> FALSE,
     outputToFile   |-> FALSE,
     maxIterations  |-> NotSet,
     outputFilename |-> IF inputFilename # "" THEN inputFilename \o "-deob.js"
                        ELSE "-deob.js"]

\* the ways -m is given: not at all, without a value, or with one
NoOption == [given |-> FALSE, missing |-> FALSE, value |-> <<>>]

MaxIterationsArgs ==
    {NoOption, [given |-> TRUE, missing |-> TRUE, value |-> <<>>]}
    \cup {[given |-> TRUE, missing |-> FALSE, value |-> v] : v \in ArgValues}

CommandLines ==
    [inputFilename : {"", "in.js"}, help : BOOLEAN, clean : BOOLEAN,
     quiet : BOOLEAN, verbose : BOOLEAN, m : MaxIterationsArgs]

\* the option's argument parser throws for a value that does not parse to a
\* number above zero
MaxIterationsThrows(value) == parseInt(value).nan \/ parseInt(value).n <= 0

parseArgs(args) ==
    IF args.m.given /\ (args.m.missing \/ MaxIterationsThrows(args.m.value))
    THEN [createDefaultOptions("") EXCEPT !.maxIterations = InvalidValue]
    ELSE IF ~args.help /\ args.inputFilename = ""
    THEN createDefaultOptions("")
    ELSE [createDefaultOptions(args.inputFilename) EXCEPT
             !.help = args.help,
             !.clean = args.clean,
             !.quiet = args.quiet,
             !.verbose = args.verbose,
             !.maxIterations =
                 IF args.m.given
                 THEN [kind |-> "number", n |-> parseInt(args.m.value).n]
                 ELSE NotSet]

CliParse ==
    /\ cliPc = "idle"
    /\ \E args \in CommandLines :
          /\ cliArgs' = args
          /\ cliOpts' = parseArgs(args)
    /\ cliPc' = "parsed"
    /\ UNCHANGED othersThanCli

\* the options are handed to the caller
CliReturn ==
    /\ cliPc = "parsed"
    /\ cliPc' = "idle"
    /\ cliArgs' = <<>>
    /\ cliOpts' = <<>>
    /\ UNCHANGED othersThanCli

CliInit ==
    /\ CliIdle
    /\ SafeIdle
    /\ DriverIdle
    /\ UnsafeIdle

CliNext ==
    \/ CliParse
    \/ CliReturn

SpecCli == CliInit /\ [][CliNext]_vars

\* a positive integer: digits only, and not zero
IsPositiveInteger(value) ==
    /\ Len(value) > 0
    /\ \A i \in DOMAIN value : value[i] \in Digits
    /\ DecimalValue(value) > 0

\* C19 as stated: -m takes a positive integer only; every other value
\* (zero, a negative number, text that is not a number) and a missing
\* value are refused: the options carry the mark of an invalid value and
\* no number.
OnlyPositiveIntegerAccepted ==
    cliPc = "parsed" /\ cliArgs.m.given
        => IF ~cliArgs.m.missing /\ IsPositiveInteger(cliArgs.m.value)
           THEN cliOpts.maxIterations.kind # "null"
           ELSE cliOpts.maxIterations = InvalidValue
====
